---- MODULE Spec2Model ----
(***************************************************************************)
(* Job-application automation service (career-automation).                 *)
(*                                                                         *)
(* The model follows src/python-services/career-automation/src:            *)
(*   browsers/base.py     BrowserManager, JobApplicator, GenericApplicator *)
(*   browsers/linkedin.py LinkedInApplicator (Easy Apply step loop)        *)
(*   browsers/indeed.py   IndeedApplicator (multi-step loop)               *)
(*   main.py              apply_to_job, batch_apply_to_jobs                *)
(*                                                                         *)
(* One HTTP request is served per behaviour.  An attempt (one call of a    *)
(* driver's apply) is a sequence of steps, one per browser operation or    *)
(* group of operations between two decisions of the code.  The browser is  *)
(* the environment: what a page shows (its URL, its content, which         *)
(* controls are visible) is chosen nondeterministically, and every awaited *)
(* Playwright call may raise instead of completing.                        *)
(*                                                                         *)
(* Text (URLs, page content, signature lists) is a sequence of fragments;  *)
(* Python's `needle in text` is contiguous-subsequence search.             *)
(***************************************************************************)
EXTENDS Integers, Sequences, FiniteSets, TLC

(***************************************************************************)
(* Bounds of the model (not program constants).                            *)
(***************************************************************************)
\* longest job_urls list of a batch request
MaxUrls == 2
\* largest number of fields the fill of one step of a step loop reports as
\* filled
MaxFilled == 1

(***************************************************************************)
(* Program constants.                                                      *)
(***************************************************************************)
\* linkedin.py:221  max_steps = 10
LinkedInMaxSteps == 10
\* indeed.py:201  max_steps = 15
IndeedMaxSteps == 15
\* main.py:337  max_applications: int = 5
DefaultMaxApplications == 5

(***************************************************************************)
(* Text.                                                                   *)
(***************************************************************************)
\* Python: needle in text
Contains(needle, text) ==
    \E k \in 0..(Len(text) - Len(needle)) :
        SubSeq(text, k + 1, k + Len(needle)) = needle

LowerFragment(f) ==
    CASE f = "LinkedIn" -> "linkedin"
      [] f = "Please Log In" -> "please log in"
      [] f = "CAPTCHA" -> "captcha"
      [] f = "Email" -> "email"
      [] OTHER -> f

\* Python: text.lower()
Lower(text) == [k \in 1..Len(text) |-> LowerFragment(text[k])]

\* The URLs of the model: job URLs a request may carry and the URLs a page
\* may be at after a navigation or a click.
JobUrls == {"li_job", "in_job", "gen_job"}
PageUrls == JobUrls \cup {"li_login", "li_authwall", "in_login", "in_uk",
                           "gen_signin", "gen_challenge", "external"}

UrlText(u) ==
    CASE u = "li_job"      -> <<"https://www.", "linkedin", ".co", "m", "/jobs/view/1">>
      [] u = "in_job"      -> <<"https://www.", "indeed", ".co", "m", "/viewjob">>
      [] u = "gen_job"     -> <<"https://", "careers.example", ".org", "/apply">>
      [] u = "li_login"    -> <<"https://www.", "linkedin", ".co", "m", "/login">>
      [] u = "li_authwall" -> <<"https://www.", "linkedin", ".co", "m", "/authwall">>
      [] u = "in_login"    -> <<"https://secure.", "indeed", ".co", "m", "/account", "/login">>
      [] u = "in_uk"       -> <<"https://www.", "indeed", ".co", ".uk", "/viewjob">>
      [] u = "gen_signin"  -> <<"https://", "careers.example", ".org", "/signin">>
      [] u = "gen_challenge" -> <<"https://", "careers.example", ".org", "/",
                                  "captcha", "/verify">>
      [] u = "external"    -> <<"https://", "jobs.acme", ".io", "/apply">>
      [] OTHER             -> << >>

\* Rendered page contents of the model.
Contents == {"plain", "login_wall", "captcha"}

ContentText(c) ==
    CASE c = "plain"      -> <<"<html>", "Apply for this job">>
      [] c = "login_wall" -> <<"<html>", "Please Log In", " to continue">>
      [] c = "captcha"    -> <<"<html>", "<div class=g-", "re", "captcha", ">">>
      [] OTHER            -> << >>

(***************************************************************************)
(* Data model (base.py:19-112).                                            *)
(***************************************************************************)
ApplicationStatus ==
    {"success", "draft", "login_required", "captcha_blocked",
     "form_error", "timeout", "failed"}

\* Exceptions an awaited Playwright call raises: playwright's Error and its
\* subclass TimeoutError.  Neither is asyncio.TimeoutError.
PlaywrightErrors == {"playwright.Error", "playwright.TimeoutError"}

NoPage == [url |-> "none", content |-> "none", controls |-> {}]
NoRequest == [job_url |-> "none", dry_run |-> FALSE, take_screenshot |-> FALSE,
              session_cookies |-> FALSE, resume_path |-> FALSE, platform |-> "none"]
NoResult == [status |-> "none", job_url |-> "none", message |-> <<>>,
             screenshot |-> "none", fields_filled |-> 0, fields_missing |-> <<>>]
NoReturn == [success |-> FALSE, message |-> <<>>]
\* the browser operations performed by the last step of an attempt
NoAct == [fills |-> 0, upload |-> FALSE, click |-> "none", shot |-> "none",
          filled_fields |-> <<>>, with_value |-> {}, seen |-> "none",
          inputs |-> {}, raising |-> {}, elements |-> <<>>, broken |-> {},
          exists |-> FALSE, file_inputs |-> {}, upload_raising |-> {},
          upload_selector |-> 0, cookie_domain |-> <<>>]

VARIABLES
    \* --- main.py: the HTTP handler serving the request ---
    handler,        \* position of the handler
    request,        \* the request body (ApplyToJobRequest or BatchApplyRequest)
    job_urls,       \* batch: request.job_urls[:request.max_applications]
    i,              \* batch: index of the enumerate loop (0-based)
    results,        \* batch: results list (status and job_url of each result)
    successful,     \* batch counters
    drafted,
    failed,
    delays,         \* number of asyncio.sleep calls made by the batch loop
    response,       \* what the handler returned ("none" while running)
    analysis,       \* analyze_job_form: its locals
    decryption,     \* the outcome of a call of decrypt_cookies
    inspection,     \* the outcome of a call of a platform driver's detect_form_fields
    \* --- base.py: BrowserManager and the contexts it has created ---
    browser,        \* BrowserManager._browser: "none" or "launched"
    opened,         \* browsing contexts created so far (ids)
    closed,         \* browsing contexts closed so far
    launches,       \* the browser processes launched and the handle in _browser
    \* --- one attempt: the locals of apply() ---
    driver,         \* "generic" | "linkedin" | "indeed" | "none"
    req,            \* the ApplicationRequest
    pc,             \* position inside apply
    context,        \* local `context`: 0 is None, else the context id
    page,           \* the page: URL and content
    logged_in,      \* indeed.py: local logged_in
    blocker,        \* result of check_for_blockers: "unchecked", "none" or a status
    fields,         \* base.py: local fields (the detected form fields)
    filled,         \* local filled: the fills counted so far (base.py),
                    \* the count of the last step's fill routine (indeed.py)
    sel,            \* base.py: index in submit_selectors
    submitted,      \* base.py: local submitted
    step,           \* step loops: local step
    ret,            \* step loops: the returned (success, message)
    screenshot,     \* locals screenshot_path/screenshot_url ("none" is None)
    exc,            \* the exception in flight ("none" when there is none)
    result,         \* the ApplicationResult apply returns
    \* --- observation of the attempt ---
    act,            \* browser operations of the last step
    submit_clicked  \* a submit control was clicked during this attempt

handlerVars == <<handler, request, job_urls, i, results, successful, drafted,
                 failed, delays, response, analysis, decryption,
                 inspection>>
managerVars == <<browser, opened, closed, launches>>
attemptVars == <<driver, req, pc, context, page, logged_in, blocker,
                 fields, filled, sel, submitted, step, ret,
                 screenshot, exc, result, act, submit_clicked>>
vars == <<handlerVars, managerVars, attemptVars>>

(***************************************************************************)
(* JobApplicator.check_for_blockers (base.py:278-308).                     *)
(***************************************************************************)
login_indicators ==
    << <<"sign in to apply">>, <<"login to apply">>, <<"sign in required">>,
       <<"please log in">>, <<"/login">>, <<"/signin">> >>

captcha_indicators ==
    << <<"captcha">>, <<"re", "captcha">>, <<"h", "captcha">>,
       <<"challenge-running">>, <<"cf-turnstile">> >>

\* variant of check_for_blockers that looks for a challenge first
check_for_blockers_captcha_first(p) ==
    LET content == ContentText(p.content)
        url == Lower(UrlText(p.url))
    IN  IF \E k \in 1..Len(captcha_indicators) :
               Contains(captcha_indicators[k], Lower(content))
        THEN "captcha_blocked"
        ELSE IF \E k \in 1..Len(login_indicators) :
                    \/ Contains(login_indicators[k], Lower(content))
                    \/ Contains(login_indicators[k], url)
             THEN "login_required"
             ELSE "none"

\* variant of check_for_blockers that looks for a challenge in the URL too
check_for_blockers_url_too(p) ==
    LET content == ContentText(p.content)
        url == Lower(UrlText(p.url))
    IN  IF \E k \in 1..Len(login_indicators) :
               \/ Contains(login_indicators[k], Lower(content))
               \/ Contains(login_indicators[k], url)
        THEN "login_required"
        ELSE IF \E k \in 1..Len(captcha_indicators) :
                    \/ Contains(captcha_indicators[k], Lower(content))
                    \/ Contains(captcha_indicators[k], url)
             THEN "captcha_blocked"
             ELSE "none"

\* The value returned for page p when page.content() completes.
check_for_blockers(p) ==
    LET content == ContentText(p.content)
        url == Lower(UrlText(p.url))
    IN  IF \E k \in 1..Len(login_indicators) :
               \/ Contains(login_indicators[k], Lower(content))
               \/ Contains(login_indicators[k], url)
        THEN "login_required"
        ELSE IF \E k \in 1..Len(captcha_indicators) :
                    Contains(captcha_indicators[k], Lower(content))
             THEN "captcha_blocked"
             ELSE "none"

\* variant of is_blocked that stops on no blocker
is_blocked_never(b) == FALSE

\* variant of is_blocked that stops on a captcha only
is_blocked_captcha_only(b) == b = "captcha_blocked"

\* base.py:376, linkedin.py:324, indeed.py:332  `if blocker:`
is_blocked(b) == b # "none"

(***************************************************************************)
(* Driver selection (main.py:315-321 and main.py:391-397).                 *)
(***************************************************************************)

select_applicator(platform, url) ==
    IF platform = "linkedin" \/ Contains(<<"linkedin", ".co", "m">>, Lower(UrlText(url)))
    THEN "linkedin"
    ELSE IF platform = "indeed" \/ Contains(<<"indeed", ".co", "m">>, Lower(UrlText(url)))
         THEN "indeed"
         ELSE "generic"

(***************************************************************************)
(* The environment: where a navigation lands.                              *)
(***************************************************************************)
\* URLs the page may be at once goto(job_url) has completed: the job page
\* itself or a redirect of its site.
Landing(u) ==
    {u} \cup (CASE u = "li_job"  -> {"li_login", "li_authwall"}
                [] u = "in_job"  -> {"in_login"}
                [] u = "gen_job" -> {"gen_signin", "gen_challenge"}
                [] OTHER         -> {})

\* URLs the page may be at after the platform's apply control was clicked.
AfterApplyClick(u) ==
    {u} \cup (CASE u = "li_job" -> {"li_login"}
                [] u = "in_job" -> {"in_login", "in_uk", "external"}
                [] OTHER        -> {})

\* The visible input, textarea and select elements of the model's
\* application pages, in page order (base.py:323): each element has a name
\* and may carry the required attribute.
Forms ==
    { << >>,
      << [name |-> "email", required |-> TRUE] >>,
      << [name |-> "email", required |-> TRUE],
         [name |-> "salary_expectation", required |-> TRUE] >>,
      << [name |-> "salary_expectation", required |-> FALSE] >>,
      << [name |-> "country", required |-> TRUE] >> }

\* base.py:426  str(request.profile.model_dump()) for the model's profiles:
\* the key of every attribute followed by its value ("<value>" stands for
\* the text of a value, which is None or '' when the attribute holds none;
\* country holds no value in the model's profiles)
ProfileDump ==
    <<"{'", "email", "': ", "<value>", ", '", "city", "': ", "<value>",
      ", '", "country", "': ", "None", "}">>

\* base.py:426  f.name in str(request.profile.model_dump())
InProfileDump(name) == Contains(<<name>>, ProfileDump)

\* base.py:426
MissingFields(fs) ==
    LET unmet(f) == f.required /\ ~InProfileDump(f.name)
        kept == SelectSeq(fs, unmet)
    IN  [k \in 1..Len(kept) |-> kept[k].name]

\* base.py:453-458  len(submit_selectors)
NumSubmitSelectors == 4

(***************************************************************************)
(* Initial state: the service is idle, no browser is launched.             *)
(***************************************************************************)
\* main.py:443-457  FormAnalysisResponse (company, job_title and
\* missing_profile_fields are left out)
NoFormAnalysis ==
    [success |-> FALSE, platform |-> "none", fields |-> <<>>,
     required_fields |-> <<>>, blockers |-> <<>>, can_apply |-> FALSE,
     estimated_fill_rate |-> 0, screenshot_url |-> "none", message |-> <<>>]

NoResponse == [kind |-> "none", result |-> NoResult, total_jobs |-> 0,
               successful |-> 0, drafted |-> 0, failed |-> 0, results |-> <<>>,
               analysis |-> NoFormAnalysis]

\* the locals of analyze_job_form (main.py:472-474 and the try block)
NoAnalysis == [context |-> 0, page |-> NoPage, blockers |-> <<>>,
               detected |-> <<>>, elements |-> <<>>, broken |-> {},
               exc |-> "none", ret |-> NoFormAnalysis]

\* no call of decrypt_cookies was made
\* base.py:118-123  BrowserManager.__init__: no browser process was launched
\* (launched counts them, a browser is named by its rank), _browser is None
\* (handle 0), no context was created (created_from lists the browser each
\* context was created from) and no caller is inside new_context (tasks)
NoLaunches == [launched |-> 0, handle |-> 0, created_from |-> <<>>, tasks |-> <<>>]
NoInspection == [driver |-> "none", enumerated |-> FALSE, containers |-> <<>>,
                 broken |-> {}, fields |-> <<>>]
NoDecryption == [payload |-> <<>>, secret |-> FALSE, raised |-> "none",
                 value |-> "none"]

AttemptInit ==
    /\ driver = "none"
    /\ req = NoRequest
    /\ pc = "idle"
    /\ context = 0
    /\ page = NoPage
    /\ logged_in = FALSE
    /\ blocker = "unchecked"
    /\ fields = <<>>
    /\ filled = 0
    /\ sel = 0
    /\ submitted = FALSE
    /\ step = 0
    /\ ret = NoReturn
    /\ screenshot = "none"
    /\ exc = "none"
    /\ result = NoResult
    /\ act = NoAct
    /\ submit_clicked = FALSE

Init ==
    /\ handler = "idle"
    /\ request = [kind |-> "none"]
    /\ job_urls = <<>>
    /\ i = 0
    /\ results = <<>>
    /\ successful = 0
    /\ drafted = 0
    /\ failed = 0
    /\ delays = 0
    /\ response = NoResponse
    /\ analysis = NoAnalysis
    /\ decryption = NoDecryption
    /\ inspection = NoInspection
    /\ browser = "none"
    /\ opened = {}
    /\ closed = {}
    /\ launches = NoLaunches
    /\ AttemptInit

(***************************************************************************)
(* main.py: the handlers start an attempt.                                 *)
(***************************************************************************)
\* ApplicationRequest built by apply_to_job (main.py:304-313) and by
\* batch_apply_to_jobs (main.py:381-389)
ApplicationRequest(url, dry, shot, cookies, resume, platform) ==
    [job_url |-> url, dry_run |-> dry, take_screenshot |-> shot,
     session_cookies |-> cookies, resume_path |-> resume, platform |-> platform]

\* the locals of apply at its first statement (base.py:364-366,
\* linkedin.py:269-271, indeed.py:256-258)
EnterApply(d, r) ==
    /\ driver' = d
    /\ req' = r
    /\ pc' = "new_context"
    /\ context' = 0
    /\ screenshot' = "none"
    /\ UNCHANGED <<page, logged_in, blocker, fields, filled, sel, submitted,
                   step, ret, exc, result, act, submit_clicked>>

\* the locals of apply are gone once its caller has taken the result
LeaveApply ==
    /\ driver' = "none"
    /\ req' = NoRequest
    /\ pc' = "idle"
    /\ context' = 0
    /\ page' = NoPage
    /\ logged_in' = FALSE
    /\ blocker' = "unchecked"
    /\ fields' = <<>>
    /\ filled' = 0
    /\ sel' = 0
    /\ submitted' = FALSE
    /\ step' = 0
    /\ ret' = NoReturn
    /\ screenshot' = "none"
    /\ exc' = "none"
    /\ result' = NoResult
    /\ act' = NoAct
    /\ submit_clicked' = FALSE

\* POST /apply (main.py:283-326): build the request, select the applicator,
\* call its apply.
apply_to_job ==
    /\ handler = "idle"
    /\ \E url \in JobUrls, dry \in BOOLEAN, shot \in BOOLEAN,
          cookies \in BOOLEAN, resume \in BOOLEAN,
          platform \in {"none", "linkedin", "indeed"} :
          /\ request' = [kind |-> "apply", job_url |-> url, dry_run |-> dry,
                         take_screenshot |-> shot, session_cookies |-> cookies,
                         resume_path |-> resume, platform |-> platform]
          /\ EnterApply(select_applicator(platform, url),
                        ApplicationRequest(url, dry, shot, cookies, resume, platform))
    /\ handler' = "apply"
    /\ UNCHANGED <<job_urls, i, results, successful, drafted, failed, delays,
                   response, managerVars, analysis, decryption,
                   inspection>>

\* main.py:324-326  result = await applicator.apply(app_request); return result
apply_to_job_return ==
    /\ handler = "apply"
    /\ pc = "returned"
    /\ response' = [NoResponse EXCEPT !.kind = "result", !.result = result]
    /\ handler' = "done"
    /\ LeaveApply
    /\ UNCHANGED <<request, job_urls, i, results, successful, drafted, failed,
                   delays, managerVars, analysis, decryption,
                   inspection>>

\* an exception leaving apply leaves the handler: the HTTP layer answers 500
handler_error ==
    /\ handler \in {"apply", "batch_apply"}
    /\ pc = "propagated"
    /\ response' = [NoResponse EXCEPT !.kind = "error"]
    /\ handler' = "done"
    /\ LeaveApply
    /\ UNCHANGED <<request, job_urls, i, results, successful, drafted, failed,
                   delays, managerVars, analysis, decryption,
                   inspection>>

\* Python: s[:m]
Prefix(s, m) ==
    LET n == IF m >= 0 THEN (IF m < Len(s) THEN m ELSE Len(s))
                       ELSE (IF Len(s) + m > 0 THEN Len(s) + m ELSE 0)
    IN  SubSeq(s, 1, n)


\* the job URLs of the model's batch requests: jobs of the three sites in
\* turn
BatchJobUrls == <<"li_job", "gen_job", "in_job">>

\* the job_urls lists of the model's batch requests, of every length up to
\* MaxUrls
UrlLists ==
    { [k \in 1..n |-> BatchJobUrls[((k - 1) % Len(BatchJobUrls)) + 1]] :
         n \in 0..MaxUrls }


\* POST /apply/batch (main.py:350-377): the code before the loop.
batch_apply_to_jobs ==
    /\ handler = "idle"
    \* a batch of the model names no resume: the uploads are explored by
    \* the requests of POST /apply
    /\ \E urls \in UrlLists, m \in {-1, 0, 1, DefaultMaxApplications},
          dry \in BOOLEAN, cookies \in BOOLEAN, resume \in {FALSE} :
          /\ request' = [kind |-> "batch", job_urls |-> urls, max_applications |-> m,
                         dry_run |-> dry, session_cookies |-> cookies,
                         resume_path |-> resume]
          /\ job_urls' = Prefix(urls, m)
    /\ results' = <<>>
    /\ successful' = 0
    /\ drafted' = 0
    /\ failed' = 0
    /\ i' = 0
    /\ handler' = "batch_loop"
    /\ UNCHANGED <<delays, response, managerVars, analysis, decryption,
                   inspection, attemptVars>>

\* main.py:379-400  one iteration of the loop up to the call of apply
batch_next ==
    /\ handler = "batch_loop"
    /\ i < Len(job_urls)
    /\ LET job_url == job_urls[i + 1]
       IN  EnterApply(select_applicator("none", job_url),
                      ApplicationRequest(job_url, request.dry_run, TRUE,
                                         request.session_cookies,
                                         request.resume_path, "none"))
    /\ handler' = "batch_apply"
    /\ UNCHANGED <<request, job_urls, i, results, successful, drafted, failed,
                   delays, response, managerVars, analysis, decryption,
                   inspection>>

\* variant of Bucket that counts only success and draft
Bucket_no_failed(status) ==
    IF status = "success" THEN "successful"
    ELSE IF status = "draft" THEN "drafted"
    ELSE "none"

\* main.py:403-409  the counter a result's status is added to
Bucket(status) ==
    IF status = "success" THEN "successful"
    ELSE IF status = "draft" THEN "drafted"
    ELSE "failed"

\* variant of sleeps_after that also sleeps after the last URL
sleeps_after_every(idx, n) == idx < n

\* main.py:412  if i < len(job_urls) - 1
sleeps_after(idx, n) == idx < n - 1

\* main.py:400-413  the result is appended and counted; the loop sleeps
\* unless this was the last URL
batch_record ==
    /\ handler = "batch_apply"
    /\ pc = "returned"
    /\ results' = Append(results, [status |-> result.status, job_url |-> result.job_url])
    /\ successful' = IF Bucket(result.status) = "successful" THEN successful + 1 ELSE successful
    /\ drafted' = IF Bucket(result.status) = "drafted" THEN drafted + 1 ELSE drafted
    /\ failed' = IF Bucket(result.status) = "failed" THEN failed + 1 ELSE failed
    /\ IF sleeps_after(i, Len(job_urls))
       THEN handler' = "batch_sleep" /\ i' = i
       ELSE handler' = "batch_loop" /\ i' = i + 1
    /\ LeaveApply
    /\ UNCHANGED <<request, job_urls, delays, response, managerVars, analysis, decryption,
                   inspection>>

\* main.py:413  await asyncio.sleep(request.delay_between_applications)
batch_sleep ==
    /\ handler = "batch_sleep"
    /\ delays' = delays + 1
    /\ i' = i + 1
    /\ handler' = "batch_loop"
    /\ UNCHANGED <<request, job_urls, results, successful, drafted, failed,
                   response, managerVars, analysis, decryption,
                   inspection, attemptVars>>

\* main.py:415-421
batch_return ==
    /\ handler = "batch_loop"
    /\ i >= Len(job_urls)
    /\ response' = [NoResponse EXCEPT !.kind = "batch",
                                      !.total_jobs = Len(job_urls),
                                      !.successful = successful,
                                      !.drafted = drafted,
                                      !.failed = failed,
                                      !.results = results]
    /\ handler' = "done"
    /\ UNCHANGED <<request, job_urls, i, results, successful, drafted, failed,
                   delays, managerVars, analysis, decryption,
                   inspection, attemptVars>>

(***************************************************************************)
(* Steps shared by the three drivers.                                      *)
(***************************************************************************)
\* id of the next context BrowserManager creates
NextContext == Cardinality(opened) + 1

\* variant of ApplicationResult whose fields_missing is never empty
ApplicationResult_with_missing(status, message, shot, nfilled, missing) ==
    [status |-> status, job_url |-> req.job_url, message |-> message,
     screenshot |-> shot, fields_filled |-> nfilled,
     fields_missing |-> <<"salary_expectation">>]

\* ApplicationResult(...) as the drivers build it
ApplicationResult(status, message, shot, nfilled, missing) ==
    [status |-> status, job_url |-> req.job_url, message |-> message,
     screenshot |-> shot, fields_filled |-> nfilled, fields_missing |-> missing]

\* `return ApplicationResult(...)` inside the try block: the finally clause
\* runs next
Return(r) ==
    /\ result' = r
    /\ pc' = "finally"

\* an awaited Playwright call raises inside the try block: the except clauses
\* run next
Raise ==
    /\ exc' = "playwright.Error"
    /\ pc' = "except"

\* variant of takes_screenshot that captures whatever the request asks
takes_screenshot_always(r) == TRUE

\* `if request.take_screenshot:` (base.py:378, 422, 474; linkedin.py:231,
\* 284, 311, 326, 342; indeed.py:287, 304, 318, 333, 349)
takes_screenshot(r) == r.take_screenshot

\* if request.take_screenshot:
\*     screenshot_path, screenshot_url = await self.browser.take_screenshot(page, label)
\* return ApplicationResult(status=..., message=..., screenshot_path=..., ...)
ScreenshotThenReturn(label, status, message, nfilled) ==
    \/ /\ ~takes_screenshot(req)
       /\ Return(ApplicationResult(status, message, screenshot, nfilled, <<>>))
       /\ act' = NoAct
       /\ UNCHANGED <<screenshot, exc>>
    \/ /\ takes_screenshot(req)
       /\ screenshot' = label
       /\ Return(ApplicationResult(status, message, label, nfilled, <<>>))
       /\ act' = [NoAct EXCEPT !.shot = label]
       /\ UNCHANGED exc
    \/ \* take_screenshot raises
       /\ takes_screenshot(req)
       /\ Raise
       /\ act' = NoAct
       /\ UNCHANGED <<screenshot, result>>

\* context = await self.browser.new_context(cookies=...); page = await
\* context.new_page()   (base.py:369-370, linkedin.py:275-277,
\* indeed.py:261-262, with BrowserManager.start and new_context,
\* base.py:125-174)
\* variant of start that launches a browser at every call
start_always(m) ==
    [m EXCEPT !.launched = @ + 1, !.handle = m.launched + 1]

\* base.py:125-137  BrowserManager.start run by one caller alone, the launch
\* completing: a browser is launched, and _browser assigned, only while
\* _browser is None
start(m) ==
    IF m.handle = 0
    THEN [m EXCEPT !.launched = @ + 1, !.handle = m.launched + 1]
    ELSE m

\* base.py:156-160  self._browser.new_context(...): the context is created
\* from the browser _browser refers to
browser_new_context(m) ==
    [m EXCEPT !.created_from = Append(@, m.handle)]

\* base.py:162-171  the domain new_context gives every cookie of the list
\* it builds, whichever driver called it
cookie_domain == <<".", "linkedin", ".co", "m">>

apply_new_context ==
    /\ pc = "new_context"
    /\ \/ \* start(): the launch raises; nothing is created
          /\ browser = "none"
          /\ Raise
          /\ UNCHANGED <<browser, opened, context, launches>>
       \/ \* self._browser.new_context(...) raises
          /\ browser' = "launched"
          /\ launches' = start(launches)
          /\ Raise
          /\ UNCHANGED <<opened, context>>
       \/ \* the context is created, context.add_cookies(...) raises: the
          \* context never reaches apply's local
          /\ req.session_cookies
          /\ browser' = "launched"
          /\ launches' = browser_new_context(start(launches))
          /\ opened' = opened \cup {NextContext}
          /\ Raise
          /\ UNCHANGED context
       \/ \* new_context returns the context; context.new_page() raises
          /\ browser' = "launched"
          /\ launches' = browser_new_context(start(launches))
          /\ opened' = opened \cup {NextContext}
          /\ context' = NextContext
          /\ Raise
       \/ \* new_context returns the context; the page is opened
          /\ browser' = "launched"
          /\ launches' = browser_new_context(start(launches))
          /\ opened' = opened \cup {NextContext}
          /\ context' = NextContext
          /\ pc' = "goto"
          /\ UNCHANGED exc
    /\ act' = IF context' # 0 /\ req.session_cookies
              THEN \* base.py:162-172  the cookies were added to the context
                   [NoAct EXCEPT !.cookie_domain = cookie_domain]
              ELSE NoAct
    /\ UNCHANGED <<handlerVars, closed, driver, req, page, logged_in, blocker,
                   fields, filled, sel, submitted, step, ret, screenshot,
                   result, submit_clicked>>

\* the first statement of each driver after the navigation
AfterGoto(d) ==
    CASE d = "generic"  -> "generic_check_blockers"
      [] d = "linkedin" -> "linkedin_is_logged_in"
      [] d = "indeed"   -> "indeed_is_logged_in"

\* await page.goto(request.job_url, wait_until='networkidle', timeout=30000)
\* (base.py:373, linkedin.py:280, indeed.py:265)
apply_goto ==
    /\ pc = "goto"
    /\ \/ /\ \E u \in Landing(req.job_url), c \in Contents :
                page' = [url |-> u, content |-> c, controls |-> {}]
          /\ pc' = AfterGoto(driver)
          /\ UNCHANGED exc
       \/ \* the navigation times out or fails
          /\ \E e \in PlaywrightErrors : exc' = e
          /\ pc' = "except"
          /\ UNCHANGED page
    /\ act' = NoAct
    /\ UNCHANGED <<handlerVars, managerVars, driver, req, context, logged_in,
                   blocker, fields, filled, sel, submitted, step, ret,
                   screenshot, result, submit_clicked>>

\* The status an exception is mapped to by the except clauses
\* (base.py:495-506, linkedin.py:369-380, indeed.py:365-376).
ExceptStatus(e) == IF e = "asyncio.TimeoutError" THEN "timeout" ELSE "failed"

ExceptMessage(e) ==
    IF e = "asyncio.TimeoutError" THEN <<"Page load timeout">>
    ELSE <<"Application failed:", e>>

\* except asyncio.TimeoutError / except Exception
apply_except ==
    /\ pc = "except"
    /\ result' = [NoResult EXCEPT !.status = ExceptStatus(exc),
                                  !.job_url = req.job_url,
                                  !.message = ExceptMessage(exc)]
    /\ exc' = "none"
    /\ pc' = "finally"
    /\ act' = NoAct
    /\ UNCHANGED <<handlerVars, managerVars, driver, req, context, page,
                   logged_in, blocker, fields, filled, sel, submitted, step,
                   ret, screenshot, submit_clicked>>

\* apply is left: its working locals are released (the model keeps the
\* request, the context local and what the attempt did until the caller has
\* taken the result)
ReleaseLocals ==
    /\ page' = NoPage
    /\ logged_in' = FALSE
    /\ fields' = <<>>
    /\ filled' = 0
    /\ sel' = 0
    /\ submitted' = FALSE
    /\ screenshot' = "none"

\* finally: if context: await context.close()
\* (base.py:507-509, linkedin.py:381-383, indeed.py:377-379)
apply_finally ==
    /\ pc = "finally"
    /\ \/ \* context is None
          /\ context = 0
          /\ pc' = "returned"
          /\ UNCHANGED <<closed, exc, result>>
       \/ \* the context is closed
          /\ context # 0
          /\ closed' = closed \cup {context}
          /\ pc' = "returned"
          /\ UNCHANGED <<exc, result>>
       \/ \* context.close() raises: the exception replaces the return value
          \* and leaves apply
          /\ context # 0
          /\ exc' = "playwright.Error"
          /\ result' = NoResult
          /\ pc' = "propagated"
          /\ UNCHANGED closed
    /\ act' = NoAct
    /\ ReleaseLocals
    /\ UNCHANGED <<handlerVars, browser, opened, launches, driver, req, context, blocker,
                   step, ret, submit_clicked>>

(***************************************************************************)
(* GenericApplicator.apply (base.py:362-509).                              *)
(***************************************************************************)
\* base.py:375-377  blocker = await self.check_for_blockers(page)
generic_check_blockers ==
    /\ pc = "generic_check_blockers"
    /\ \/ /\ blocker' = check_for_blockers(page)
          /\ pc' = IF is_blocked(blocker') THEN "generic_blocked"
                   ELSE "generic_click_apply"
          /\ UNCHANGED exc
       \/ \* page.content() raises
          /\ Raise
          /\ UNCHANGED blocker
    /\ act' = NoAct
    /\ UNCHANGED <<handlerVars, managerVars, driver, req, context, page,
                   logged_in, fields, filled, sel, submitted, step, ret,
                   screenshot, result, submit_clicked>>

\* base.py:377-386  the blocker branch
generic_blocked ==
    /\ pc = "generic_blocked"
    /\ ScreenshotThenReturn("blocked", blocker, <<"Application blocked:", blocker>>, 0)
    /\ UNCHANGED <<handlerVars, managerVars, driver, req, context, page,
                   logged_in, blocker, fields, filled, sel, submitted, step,
                   ret, submit_clicked>>

\* base.py:388-407  the "Apply" button: the first visible one is clicked;
\* every failure of a probe or of the click is swallowed
generic_click_apply ==
    /\ pc = "generic_click_apply"
    /\ \/ \* a button was visible and was clicked
          act' = [NoAct EXCEPT !.click = "apply"]
       \/ \* no button was visible, or each probe or click raised
          act' = NoAct
    /\ pc' = "generic_detect_form_fields"
    /\ UNCHANGED <<handlerVars, managerVars, driver, req, context, page,
                   logged_in, blocker, fields, filled, sel, submitted, step,
                   ret, screenshot, exc, result, submit_clicked>>

\* base.py:351-356  the FormField built for an element
FormField(element) == [name |-> element.name, required |-> element.required]

\* variant of classify_from in which the first element whose classification
\* raises ends the enumeration
RECURSIVE classify_until_broken(_, _, _)
classify_until_broken(k, elements, broken) ==
    IF k > Len(elements) \/ k \in broken THEN <<>>
    ELSE <<FormField(elements[k])>> \o classify_until_broken(k + 1, elements, broken)

\* base.py:325-358  the loop over the elements from the k-th on: an element
\* whose classification raises is skipped (`except Exception: continue`),
\* every other one is appended
RECURSIVE classify_from(_, _, _)
classify_from(k, elements, broken) ==
    IF k > Len(elements) THEN <<>>
    ELSE (IF k \in broken THEN <<>> ELSE <<FormField(elements[k])>>)
         \o classify_from(k + 1, elements, broken)

\* base.py:318-360  GenericApplicator.detect_form_fields once the
\* enumeration of base.py:323 has completed; broken is the set of positions
\* of the elements on which an attribute read raises
detect_form_fields(elements, broken) == classify_from(1, elements, broken)

\* base.py:410  fields = await self.detect_form_fields(page)
\* (base.py:318-360: the enumeration of base.py:323 is outside the try)
generic_detect_form_fields ==
    /\ pc = "generic_detect_form_fields"
    /\ \/ /\ \E elements \in Forms :
                \E broken \in SUBSET (1..Len(elements)) :
                   /\ fields' = detect_form_fields(elements, broken)
                   /\ act' = [NoAct EXCEPT !.elements = elements,
                                           !.broken = broken]
          /\ pc' = "generic_fill_common_fields"
          /\ UNCHANGED exc
       \/ \* page.locator(...).all() raises
          /\ Raise
          /\ act' = NoAct
          /\ UNCHANGED fields
    /\ UNCHANGED <<handlerVars, managerVars, driver, req, context, page,
                   logged_in, blocker, filled, sel, submitted, step, ret,
                   screenshot, result, submit_clicked>>

(***************************************************************************)
(* JobApplicator.fill_common_fields (base.py:211-248).                     *)
(***************************************************************************)
\* base.py:215-226  field_mapping, for the attributes email and city of the
\* model's profiles
field_mapping ==
    << [field |-> "email",
        selectors |-> << <<"email">>, <<"email", "_address">>, <<"email", "address">> >>],
       [field |-> "city",
        selectors |-> << <<"city">>, <<"location_", "city">> >>] >>

\* base.py:235-240  the attributes of an input the patterns look at
InputAttributes == <<"name", "id", "placeholder", "aria-label">>

\* The visible inputs of the model's pages: the attribute an input carries
\* and its text.
PageInputs ==
    { {},
      {[attr |-> "name", text |-> <<"email">>]},
      {[attr |-> "id", text |-> <<"Email", "_address">>]},
      {[attr |-> "placeholder", text |-> <<"location_", "city">>]} }

\* The model's profiles: the set of attributes holding a non-empty value.
Profiles == SUBSET {"email", "city"}

\* base.py:234-244  one selector: the first pattern with a visible match
\* fills and counts once, then `break` leaves the pattern loop; a probe or a
\* fill that raises leaves the selector without a count (`continue`)
selector_fills(selector, inputs, raising) ==
    /\ selector \notin raising
    /\ \E k \in 1..Len(InputAttributes) :
          \E inp \in inputs :
             /\ inp.attr = InputAttributes[k]
             /\ Contains(Lower(selector), Lower(inp.text))

\* variant of the loops in which the first selector that raises ends the call
RECURSIVE fills_until_raise(_, _, _, _, _)
fills_until_raise(f, k, inputs, with_value, raising) ==
    IF f > Len(field_mapping) THEN <<>>
    ELSE IF field_mapping[f].field \notin with_value
            \/ k > Len(field_mapping[f].selectors)
         THEN fills_until_raise(f + 1, 1, inputs, with_value, raising)
         ELSE IF field_mapping[f].selectors[k] \in raising THEN <<>>
         ELSE (IF selector_fills(field_mapping[f].selectors[k], inputs, raising)
               THEN <<field_mapping[f].field>> ELSE <<>>)
              \o fills_until_raise(f, k + 1, inputs, with_value, raising)

\* base.py:228-246  the loops over field_mapping and over the selectors of
\* a field: the attribute of every fill made, in order
RECURSIVE fills_from(_, _, _, _, _)
fills_from(f, k, inputs, with_value, raising) ==
    IF f > Len(field_mapping) THEN <<>>
    ELSE IF field_mapping[f].field \notin with_value
            \/ k > Len(field_mapping[f].selectors)
         THEN fills_from(f + 1, 1, inputs, with_value, raising)
         ELSE (IF selector_fills(field_mapping[f].selectors[k], inputs, raising)
               THEN <<field_mapping[f].field>> ELSE <<>>)
              \o fills_from(f, k + 1, inputs, with_value, raising)

\* base.py:211-248  the fills made; the value returned is their number
fill_common_fields(inputs, with_value, raising) ==
    fills_from(1, 1, inputs, with_value, raising)


\* base.py:413  filled = await self.fill_common_fields(page, request.profile)
generic_fill_common_fields ==
    /\ pc = "generic_fill_common_fields"
    \* raising: the selectors whose probe or fill raises in this call
    /\ \E inputs \in PageInputs, with_value \in Profiles,
          raising \in {{}, {<<"email">>}, {<<"location_", "city">>}} :
          LET done == fill_common_fields(inputs, with_value, raising)
          IN  /\ filled' = Len(done)
              /\ act' = [NoAct EXCEPT !.fills = Len(done),
                                      !.filled_fields = done,
                                      !.with_value = with_value,
                                      !.inputs = inputs,
                                      !.raising = raising]
    /\ pc' = IF req.resume_path THEN "generic_upload_resume"
             ELSE "generic_screenshot"
    /\ UNCHANGED <<handlerVars, managerVars, driver, req, context, page,
                   logged_in, blocker, fields, sel, submitted, step, ret,
                   screenshot, exc, result, submit_clicked>>

\* base.py:257-263  upload_selectors, in the order they are tried: a file
\* input accepting pdf, one named resume, one named cv, one whose id holds
\* resume, any file input
upload_selectors == <<"accept_pdf", "name_resume", "name_cv", "id_resume", "file">>



\* base.py:265-272  the loop over upload_selectors from position k: the
\* position of the selector whose input took the file, 0 when none did; a
\* selector that raises is passed over (`continue`)
RECURSIVE upload_from(_, _, _)
upload_from(k, file_inputs, raising) ==
    IF k > Len(upload_selectors) THEN 0
    ELSE IF k \notin raising /\ k \in file_inputs THEN k
    ELSE upload_from(k + 1, file_inputs, raising)

\* base.py:250-276  upload_resume: False without an existing file
\* (base.py:252-253), else whether an input took the file
upload_resume(exists, file_inputs, raising) ==
    IF ~exists THEN 0 ELSE upload_from(1, file_inputs, raising)

\* base.py:416-419  upload_resume (base.py:250-276: never raises)
generic_upload_resume ==
    /\ pc = "generic_upload_resume"
    \* file_inputs: the upload_selectors (by position) that match a file
    \* input; raising: those whose count() or set_input_files() raises
    /\ \E exists \in BOOLEAN, file_inputs \in {{}, {5}, {2, 5}},
          raising \in {{}, {2}, {2, 5}} :
          LET resume_uploaded == upload_resume(exists, file_inputs, raising)
          IN  /\ filled' = IF resume_uploaded # 0 THEN filled + 1 ELSE filled
              /\ act' = [NoAct EXCEPT !.upload = resume_uploaded # 0,
                                      !.exists = exists,
                                      !.file_inputs = file_inputs,
                                      !.upload_raising = raising,
                                      !.upload_selector = resume_uploaded]
    /\ pc' = "generic_screenshot"
    /\ UNCHANGED <<handlerVars, managerVars, driver, req, context, page,
                   logged_in, blocker, fields, sel, submitted, step, ret,
                   screenshot, exc, result, submit_clicked>>

\* base.py:421-423  the screenshot before submission
generic_screenshot ==
    /\ pc = "generic_screenshot"
    /\ \/ /\ ~takes_screenshot(req)
          /\ pc' = "generic_decide"
          /\ act' = NoAct
          /\ UNCHANGED <<screenshot, exc>>
       \/ /\ takes_screenshot(req)
          /\ screenshot' = "application"
          /\ pc' = "generic_decide"
          /\ act' = [NoAct EXCEPT !.shot = "application"]
          /\ UNCHANGED exc
       \/ /\ takes_screenshot(req)
          /\ Raise
          /\ act' = NoAct
          /\ UNCHANGED screenshot
    /\ UNCHANGED <<handlerVars, managerVars, driver, req, context, page,
                   logged_in, blocker, fields, filled, sel, submitted, step,
                   ret, result, submit_clicked>>

\* variant of generic_is_dry_run that takes every request for a live one
generic_never_dry_run(r) == FALSE

\* base.py:429  if request.dry_run: return the draft
generic_is_dry_run(r) == r.dry_run

\* base.py:425-450  missing_fields; the dry-run return; the missing-fields
\* return; otherwise the submit loop starts
generic_decide ==
    /\ pc = "generic_decide"
    /\ LET missing == MissingFields(fields)
       IN  \/ /\ generic_is_dry_run(req)
              /\ Return(ApplicationResult("draft", <<"Dry run completed. Filled", filled>>,
                                          screenshot, filled, missing))
              /\ UNCHANGED <<sel, submitted>>
           \/ /\ ~generic_is_dry_run(req)
              /\ missing # <<>>
              /\ Return(ApplicationResult("draft",
                          <<"Application saved as draft. Missing required fields:", missing>>,
                          screenshot, filled, missing))
              /\ UNCHANGED <<sel, submitted>>
           \/ /\ ~generic_is_dry_run(req)
              /\ missing = <<>>
              /\ sel' = 1
              /\ submitted' = FALSE
              /\ pc' = "generic_submit"
              /\ UNCHANGED result
    /\ act' = NoAct
    /\ UNCHANGED <<handlerVars, managerVars, driver, req, context, page,
                   logged_in, blocker, fields, filled, step, ret, screenshot,
                   exc, submit_clicked>>

\* base.py:460-470  one selector of submit_selectors
generic_submit ==
    /\ pc = "generic_submit"
    /\ sel <= NumSubmitSelectors
    /\ \/ \* not visible, or is_visible or click raised (swallowed): next selector
          /\ sel' = sel + 1
          /\ act' = NoAct
          /\ UNCHANGED <<submitted, submit_clicked, pc>>
       \/ \* visible and clicked, the settle wait completes: break
          /\ submitted' = TRUE
          /\ submit_clicked' = TRUE
          /\ act' = [NoAct EXCEPT !.click = "submit"]
          /\ pc' = "generic_finish"
          /\ UNCHANGED sel
       \/ \* visible and clicked, wait_for_timeout raises (swallowed): next selector
          /\ submitted' = TRUE
          /\ submit_clicked' = TRUE
          /\ act' = [NoAct EXCEPT !.click = "submit"]
          /\ sel' = sel + 1
          /\ UNCHANGED pc
    /\ UNCHANGED <<handlerVars, managerVars, driver, req, context, page,
                   logged_in, blocker, fields, filled, step, ret, screenshot,
                   exc, result>>

\* base.py:461  the for loop is exhausted
generic_submit_exhausted ==
    /\ pc = "generic_submit"
    /\ sel > NumSubmitSelectors
    /\ pc' = "generic_finish"
    /\ act' = NoAct
    /\ UNCHANGED <<handlerVars, managerVars, driver, req, context, page,
                   logged_in, blocker, fields, filled, sel, submitted, step,
                   ret, screenshot, exc, result, submit_clicked>>

\* variant of generic_was_submitted that takes every attempt for a submitted
\* one
generic_always_submitted(sub) == TRUE

\* base.py:472  if submitted:
generic_was_submitted(sub) == sub

\* base.py:472-493  success if submitted, else draft
generic_finish ==
    /\ pc = "generic_finish"
    /\ \/ /\ generic_was_submitted(submitted)
          /\ ScreenshotThenReturn("submitted", "success",
                                  <<"Application submitted successfully">>, filled)
       \/ /\ ~generic_was_submitted(submitted)
          /\ Return(ApplicationResult("draft",
                      <<"Could not find submit button. Application saved as draft.">>,
                      screenshot, filled, <<>>))
          /\ act' = NoAct
          /\ UNCHANGED <<screenshot, exc>>
    /\ UNCHANGED <<handlerVars, managerVars, driver, req, context, page,
                   logged_in, blocker, fields, filled, sel, submitted, step,
                   ret, submit_clicked>>

(***************************************************************************)
(* LinkedInApplicator (linkedin.py).                                       *)
(***************************************************************************)
\* variant of linkedin_logged_in that ignores the URL
linkedin_logged_in_any_url(nav, url) == TRUE

\* linkedin.py:97-111  _is_logged_in, given whether the profile-nav marker
\* is on the page
linkedin_logged_in(nav, url) ==
    IF nav THEN TRUE
    ELSE IF Contains(<<"/login">>, UrlText(url)) \/ Contains(<<"/authwall">>, UrlText(url))
         THEN FALSE
         ELSE TRUE

\* linkedin.py:282-283  if not await self._is_logged_in(page)
linkedin_is_logged_in ==
    /\ pc = "linkedin_is_logged_in"
    /\ \/ \E nav \in BOOLEAN :
             /\ pc' = IF linkedin_logged_in(nav, page.url)
                      THEN "linkedin_click_easy_apply"
                      ELSE "linkedin_login_required"
             /\ act' = [NoAct EXCEPT !.seen = IF nav THEN "nav" ELSE "no_nav"]
       \/ \* profile_nav.count() raises: _is_logged_in returns False
          /\ pc' = "linkedin_login_required"
          /\ act' = NoAct
    /\ UNCHANGED <<handlerVars, managerVars, driver, req, context, page,
                   logged_in, blocker, fields, filled, sel, submitted, step,
                   ret, screenshot, exc, result, submit_clicked>>

\* linkedin.py:284-292
linkedin_login_required ==
    /\ pc = "linkedin_login_required"
    /\ ScreenshotThenReturn("login_required", "login_required",
            <<"LinkedIn login required. Please provide session cookies.">>, 0)
    /\ UNCHANGED <<handlerVars, managerVars, driver, req, context, page,
                   logged_in, blocker, fields, filled, sel, submitted, step,
                   ret, submit_clicked>>

\* linkedin.py:294-310  job details (failures swallowed), then
\* clicked = await self._click_easy_apply(page)   (linkedin.py:113-132:
\* never raises)
linkedin_click_easy_apply ==
    /\ pc = "linkedin_click_easy_apply"
    /\ \/ \* a button was visible and was clicked: the page may change
          /\ \E u \in AfterApplyClick(page.url), c \in Contents :
                page' = [url |-> u, content |-> c, controls |-> {}]
          /\ act' = [NoAct EXCEPT !.click = "apply"]
          /\ pc' = "linkedin_check_blockers"
       \/ \* no button was visible, or each probe or click raised
          /\ act' = NoAct
          /\ pc' = "linkedin_no_easy_apply"
          /\ UNCHANGED page
    /\ UNCHANGED <<handlerVars, managerVars, driver, req, context, logged_in,
                   blocker, fields, filled, sel, submitted, step, ret,
                   screenshot, exc, result, submit_clicked>>

\* linkedin.py:310-321
linkedin_no_easy_apply ==
    /\ pc = "linkedin_no_easy_apply"
    /\ ScreenshotThenReturn("no_easy_apply", "draft",
            <<"Easy Apply button not found. Job may require external application.">>, 0)
    /\ UNCHANGED <<handlerVars, managerVars, driver, req, context, page,
                   logged_in, blocker, fields, filled, sel, submitted, step,
                   ret, submit_clicked>>

\* linkedin.py:323-325  blocker = await self.check_for_blockers(page)
linkedin_check_blockers ==
    /\ pc = "linkedin_check_blockers"
    /\ \/ /\ blocker' = check_for_blockers(page)
          /\ pc' = IF is_blocked(blocker') THEN "linkedin_blocked"
                   ELSE "linkedin_step"
          /\ UNCHANGED exc
       \/ \* page.content() raises
          /\ Raise
          /\ UNCHANGED blocker
    /\ act' = NoAct
    /\ UNCHANGED <<handlerVars, managerVars, driver, req, context, page,
                   logged_in, fields, filled, sel, submitted, step, ret,
                   screenshot, result, submit_clicked>>

\* linkedin.py:325-336
linkedin_blocked ==
    /\ pc = "linkedin_blocked"
    /\ ScreenshotThenReturn("blocked", blocker, <<"Application blocked:", blocker>>, 0)
    /\ UNCHANGED <<handlerVars, managerVars, driver, req, context, page,
                   logged_in, blocker, fields, filled, sel, submitted, step,
                   ret, submit_clicked>>

\* variant of linkedin_loop_continues that allows one more iteration
linkedin_loop_one_more(n) == n < LinkedInMaxSteps + 1

\* linkedin.py:224  while step < max_steps
linkedin_loop_continues(n) == n < LinkedInMaxSteps

\* variant of linkedin_is_dry_run that takes every request for a dry run
linkedin_always_dry_run(r) == TRUE

\* linkedin.py:237  if request.dry_run: return True, "Dry run completed ..."
linkedin_is_dry_run(r) == r.dry_run

\* linkedin.py:265  return False, f"Could not complete application after {step} steps"
CouldNotComplete(n) ==
    [success |-> FALSE, message |-> <<"Could not complete application after", n, "steps">>]

\* the controls a step of an application form may show
StepControls == {"submit", "continue"}

\* variant of linkedin_submit_visible that never sees the submit control
linkedin_submit_never_visible(p) == FALSE

\* linkedin.py:235-236  if await submit_button.is_visible(timeout=1000)
linkedin_submit_visible(p) == "submit" \in p.controls

\* linkedin.py:256-257  if await next_button.is_visible(timeout=1000)
linkedin_next_visible(p) == "continue" \in p.controls

\* linkedin.py:224-228  the loop test, step += 1, and
\* _fill_easy_apply_form (linkedin.py:134-193: never raises, its result is
\* dropped)
linkedin_step ==
    /\ pc = "linkedin_step"
    /\ linkedin_loop_continues(step)
    /\ step' = step + 1
    /\ \E n \in 0..MaxFilled, up \in {FALSE, req.resume_path} :
          \* linkedin.py:228  the count _fill_easy_apply_form returns is
          \* dropped: no local receives it
          act' = [NoAct EXCEPT !.fills = n, !.upload = up]
    /\ pc' = IF req.dry_run /\ takes_screenshot(req)
             THEN "linkedin_step_screenshot" ELSE "linkedin_submit"
    /\ UNCHANGED <<handlerVars, managerVars, driver, req, context, page,
                   logged_in, blocker, fields, filled, sel, submitted, ret,
                   screenshot, exc, result, submit_clicked>>

\* linkedin.py:224, 265  the loop test fails: the bound is exhausted
linkedin_steps_exhausted ==
    /\ pc = "linkedin_step"
    /\ ~linkedin_loop_continues(step)
    /\ ret' = CouldNotComplete(step)
    /\ pc' = "linkedin_final_screenshot"
    /\ act' = NoAct
    /\ UNCHANGED <<handlerVars, managerVars, driver, req, context, page,
                   logged_in, blocker, fields, filled, sel, submitted, step,
                   screenshot, exc, result, submit_clicked>>

\* linkedin.py:230-232  the step screenshot of a dry run (its result is
\* dropped)
linkedin_step_screenshot ==
    /\ pc = "linkedin_step_screenshot"
    /\ \/ /\ act' = [NoAct EXCEPT !.shot = "step"]
          /\ pc' = "linkedin_submit"
          /\ UNCHANGED exc
       \/ /\ Raise
          /\ act' = NoAct
    /\ UNCHANGED <<handlerVars, managerVars, driver, req, context, page,
                   logged_in, blocker, fields, filled, sel, submitted, step,
                   ret, screenshot, result, submit_clicked>>

\* linkedin.py:234-253  the submit control
linkedin_submit ==
    /\ pc = "linkedin_submit"
    /\ \/ \* is_visible raises
          /\ Raise
          /\ act' = NoAct
          /\ UNCHANGED <<ret, submit_clicked>>
          /\ UNCHANGED page
       \/ \* the probe of the submit control completes: what the step shows
          \E c \in SUBSET StepControls :
             /\ page' = [page EXCEPT !.controls = c]
             /\ \/ \* not visible
                   /\ ~linkedin_submit_visible(page')
                   /\ pc' = "linkedin_next"
                   /\ act' = NoAct
                   /\ UNCHANGED <<ret, exc, submit_clicked>>
                \/ \* visible, dry run: return without clicking
                   /\ linkedin_submit_visible(page')
                   /\ linkedin_is_dry_run(req)
                   /\ ret' = [success |-> TRUE, message |-> <<"Dry run completed - ready to submit">>]
                   /\ pc' = "linkedin_final_screenshot"
                   /\ act' = NoAct
                   /\ UNCHANGED <<exc, submit_clicked>>
                \/ \* visible: click() raises
                   /\ linkedin_submit_visible(page')
                   /\ ~linkedin_is_dry_run(req)
                   /\ Raise
                   /\ act' = NoAct
                   /\ UNCHANGED <<ret, submit_clicked>>
                \/ \* visible and clicked; the settle wait or the success scan raises
                   /\ linkedin_submit_visible(page')
                   /\ ~linkedin_is_dry_run(req)
                   /\ submit_clicked' = TRUE
                   /\ act' = [NoAct EXCEPT !.click = "submit"]
                   /\ Raise
                   /\ UNCHANGED ret
                \/ \* visible and clicked; a success marker is found or not
                   /\ linkedin_submit_visible(page')
                   /\ ~linkedin_is_dry_run(req)
                   /\ submit_clicked' = TRUE
                   /\ act' = [NoAct EXCEPT !.click = "submit"]
                   /\ \E m \in {"Application submitted successfully", "Submit button clicked"} :
                         ret' = [success |-> TRUE, message |-> <<m>>]
                   /\ pc' = "linkedin_final_screenshot"
                   /\ UNCHANGED exc
    /\ UNCHANGED <<handlerVars, managerVars, driver, req, context,
                   logged_in, blocker, fields, filled, sel, submitted, step,
                   screenshot, result>>

\* linkedin.py:255-265  the continue control, else break
linkedin_next ==
    /\ pc = "linkedin_next"
    /\ \/ \* visible and clicked: continue
          /\ linkedin_next_visible(page)
          /\ act' = [NoAct EXCEPT !.click = "continue"]
          /\ pc' = "linkedin_step"
          /\ UNCHANGED <<ret, exc>>
       \/ \* is_visible, click() or the settle wait raises
          /\ Raise
          /\ act' = NoAct
          /\ UNCHANGED ret
       \/ \* not visible: break
          /\ ~linkedin_next_visible(page)
          /\ ret' = CouldNotComplete(step)
          /\ pc' = "linkedin_final_screenshot"
          /\ act' = NoAct
          /\ UNCHANGED exc
    /\ UNCHANGED <<handlerVars, managerVars, driver, req, context, page,
                   logged_in, blocker, fields, filled, sel, submitted, step,
                   screenshot, result, submit_clicked>>

\* variant of linkedin_success_status that ignores request.dry_run
linkedin_always_success(r) == "success"

\* linkedin.py:350  status of the result when the loop reported success
linkedin_success_status(r) == IF ~r.dry_run THEN "success" ELSE "draft"

\* linkedin.py:341-367  the final screenshot and the result
linkedin_final_screenshot ==
    /\ pc = "linkedin_final_screenshot"
    /\ \/ /\ ret.success
          /\ ScreenshotThenReturn("submitted", linkedin_success_status(req),
                                  ret.message, 0)
       \/ /\ ~ret.success
          /\ ScreenshotThenReturn("incomplete", "draft", ret.message, 0)
    /\ UNCHANGED <<handlerVars, managerVars, driver, req, context, page,
                   logged_in, blocker, fields, filled, sel, submitted, step,
                   ret, submit_clicked>>

linkedin_apply ==
    \/ linkedin_is_logged_in
    \/ linkedin_login_required
    \/ linkedin_click_easy_apply
    \/ linkedin_no_easy_apply
    \/ linkedin_check_blockers
    \/ linkedin_blocked
    \/ linkedin_step
    \/ linkedin_steps_exhausted
    \/ linkedin_step_screenshot
    \/ linkedin_submit
    \/ linkedin_next
    \/ linkedin_final_screenshot

(***************************************************************************)
(* IndeedApplicator (indeed.py).                                           *)
(***************************************************************************)
\* indeed.py:93-112  _is_logged_in, given whether a profile indicator is on
\* the page
indeed_logged_in(indicator, url) ==
    IF indicator THEN TRUE
    ELSE IF \/ Contains(<<"/account", "/login">>, UrlText(url))
            \/ Contains(<<"/login">>, UrlText(url))
         THEN FALSE
         ELSE TRUE

\* indeed.py:268  logged_in = await self._is_logged_in(page)
indeed_is_logged_in ==
    /\ pc = "indeed_is_logged_in"
    /\ \/ \E indicator \in BOOLEAN :
             logged_in' = indeed_logged_in(indicator, page.url)
       \/ \* a count() raises: _is_logged_in returns False
          logged_in' = FALSE
    /\ pc' = "indeed_click_apply_button"
    /\ act' = NoAct
    /\ UNCHANGED <<handlerVars, managerVars, driver, req, context, page,
                   blocker, fields, filled, sel, submitted, step, ret,
                   screenshot, exc, result, submit_clicked>>

\* indeed.py:270-286  job details (failures swallowed), then
\* clicked = await self._click_apply_button(page)   (indeed.py:114-134:
\* never raises)
indeed_click_apply_button ==
    /\ pc = "indeed_click_apply_button"
    /\ \/ \* a button was visible and was clicked: the page may change
          /\ \E u \in AfterApplyClick(page.url), c \in Contents :
                page' = [url |-> u, content |-> c, controls |-> {}]
          /\ act' = [NoAct EXCEPT !.click = "apply"]
          /\ pc' = "indeed_check_external"
       \/ \* no button was visible, or each probe or click raised
          /\ act' = NoAct
          /\ pc' = "indeed_no_apply_button"
          /\ UNCHANGED page
    /\ UNCHANGED <<handlerVars, managerVars, driver, req, context, logged_in,
                   blocker, fields, filled, sel, submitted, step, ret,
                   screenshot, exc, result, submit_clicked>>

\* indeed.py:286-297
indeed_no_apply_button ==
    /\ pc = "indeed_no_apply_button"
    /\ ScreenshotThenReturn("no_apply_button", "draft", <<"Apply button not found">>, 0)
    /\ UNCHANGED <<handlerVars, managerVars, driver, req, context, page,
                   logged_in, blocker, fields, filled, sel, submitted, step,
                   ret, submit_clicked>>

\* indeed.py:25  INDEED_DOMAINS
INDEED_DOMAINS ==
    << <<"indeed", ".co", "m">>, <<"www.", "indeed", ".co", "m">>, <<"indeed", ".co">> >>

\* indeed.py:27-30  detect_platform: a domain of INDEED_DOMAINS occurs in the
\* lower-cased URL
indeed_detect_platform(url) ==
    \E k \in 1..Len(INDEED_DOMAINS) : Contains(INDEED_DOMAINS[k], Lower(UrlText(url)))

\* variant of indeed_is_external that takes every URL for the job board's
indeed_never_external(url) == FALSE

\* indeed.py:303  'indeed.com' not in page.url.lower()
indeed_is_external(url) == ~Contains(<<"indeed", ".co", "m">>, Lower(UrlText(url)))

\* indeed.py:317  not logged_in and '/account/login' in page.url
indeed_needs_login(li, url) == ~li /\ Contains(<<"/account", "/login">>, UrlText(url))

\* indeed.py:299-317  the wait for the form, then the tests on page.url
indeed_check_external ==
    /\ pc = "indeed_check_external"
    /\ \/ /\ pc' = IF indeed_is_external(page.url) THEN "indeed_external"
                   ELSE IF indeed_needs_login(logged_in, page.url)
                        THEN "indeed_login_required"
                        ELSE "indeed_check_blockers"
          /\ UNCHANGED exc
       \/ \* page.wait_for_timeout(2000) raises
          Raise
    /\ act' = NoAct
    /\ UNCHANGED <<handlerVars, managerVars, driver, req, context, page,
                   logged_in, blocker, fields, filled, sel, submitted, step,
                   ret, screenshot, result, submit_clicked>>

\* indeed.py:303-314
indeed_external ==
    /\ pc = "indeed_external"
    /\ ScreenshotThenReturn("external_redirect", "draft",
                            <<"External application site:", page.url>>, 0)
    /\ UNCHANGED <<handlerVars, managerVars, driver, req, context, page,
                   logged_in, blocker, fields, filled, sel, submitted, step,
                   ret, submit_clicked>>

\* indeed.py:317-328
indeed_login_required ==
    /\ pc = "indeed_login_required"
    /\ ScreenshotThenReturn("login_required", "login_required",
            <<"Indeed login required. Please provide session cookies.">>, 0)
    /\ UNCHANGED <<handlerVars, managerVars, driver, req, context, page,
                   logged_in, blocker, fields, filled, sel, submitted, step,
                   ret, submit_clicked>>

\* indeed.py:330-332  blocker = await self.check_for_blockers(page)
indeed_check_blockers ==
    /\ pc = "indeed_check_blockers"
    /\ \/ /\ blocker' = check_for_blockers(page)
          /\ pc' = IF is_blocked(blocker') THEN "indeed_blocked"
                   ELSE "indeed_step"
          /\ UNCHANGED exc
       \/ \* page.content() raises
          /\ Raise
          /\ UNCHANGED blocker
    /\ act' = NoAct
    /\ UNCHANGED <<handlerVars, managerVars, driver, req, context, page,
                   logged_in, fields, filled, sel, submitted, step, ret,
                   screenshot, result, submit_clicked>>

\* indeed.py:332-343
indeed_blocked ==
    /\ pc = "indeed_blocked"
    /\ ScreenshotThenReturn("blocked", blocker, <<"Application blocked:", blocker>>, 0)
    /\ UNCHANGED <<handlerVars, managerVars, driver, req, context, page,
                   logged_in, blocker, fields, filled, sel, submitted, step,
                   ret, submit_clicked>>

\* indeed.py:204  while step < max_steps
indeed_loop_continues(n) == n < IndeedMaxSteps

\* indeed.py:225  if request.dry_run: return True, "Dry run completed ..."
indeed_is_dry_run(r) == r.dry_run

\* indeed.py:223-224  if await submit_button.is_visible(timeout=1000)
indeed_submit_visible(p) == "submit" \in p.controls

\* indeed.py:244-245  if await continue_button.is_visible(timeout=1000)
indeed_continue_visible(p) == "continue" \in p.controls

\* indeed.py:204-208  the loop test, step += 1, and _fill_indeed_form
\* (indeed.py:136-197: never raises, its result is dropped)
indeed_step ==
    /\ pc = "indeed_step"
    /\ indeed_loop_continues(step)
    /\ step' = step + 1
    /\ \E n \in 0..MaxFilled, up \in {FALSE, req.resume_path} :
          /\ act' = [NoAct EXCEPT !.fills = n, !.upload = up]
          \* indeed.py:136-197  the count _fill_indeed_form returns (an
          \* uploaded resume counts, indeed.py:184-189), assigned to the
          \* loop's local filled (indeed.py:208)
          /\ filled' = n + (IF up THEN 1 ELSE 0)
    /\ pc' = "indeed_submit"
    /\ UNCHANGED <<handlerVars, managerVars, driver, req, context, page,
                   logged_in, blocker, fields, sel, submitted, ret,
                   screenshot, exc, result, submit_clicked>>

\* indeed.py:204, 252  the loop test fails: the bound is exhausted
indeed_steps_exhausted ==
    /\ pc = "indeed_step"
    /\ ~indeed_loop_continues(step)
    /\ ret' = CouldNotComplete(step)
    /\ pc' = "indeed_final_screenshot"
    /\ act' = NoAct
    /\ UNCHANGED <<handlerVars, managerVars, driver, req, context, page,
                   logged_in, blocker, fields, filled, sel, submitted, step,
                   screenshot, exc, result, submit_clicked>>

\* indeed.py:223-242  the submit control is tried first
indeed_submit ==
    /\ pc = "indeed_submit"
    /\ \/ \* is_visible raises
          /\ Raise
          /\ act' = NoAct
          /\ UNCHANGED <<ret, submit_clicked>>
          /\ UNCHANGED page
       \/ \* the probe of the submit control completes: what the step shows
          \E c \in SUBSET StepControls :
             /\ page' = [page EXCEPT !.controls = c]
             /\ \/ \* not visible
                   /\ ~indeed_submit_visible(page')
                   /\ pc' = "indeed_continue"
                   /\ act' = NoAct
                   /\ UNCHANGED <<ret, exc, submit_clicked>>
                \/ \* visible, dry run: return without clicking
                   /\ indeed_submit_visible(page')
                   /\ indeed_is_dry_run(req)
                   /\ ret' = [success |-> TRUE, message |-> <<"Dry run completed - ready to submit">>]
                   /\ pc' = "indeed_final_screenshot"
                   /\ act' = NoAct
                   /\ UNCHANGED <<exc, submit_clicked>>
                \/ \* visible: click() raises
                   /\ indeed_submit_visible(page')
                   /\ ~indeed_is_dry_run(req)
                   /\ Raise
                   /\ act' = NoAct
                   /\ UNCHANGED <<ret, submit_clicked>>
                \/ \* visible and clicked; the settle wait or the success scan raises
                   /\ indeed_submit_visible(page')
                   /\ ~indeed_is_dry_run(req)
                   /\ submit_clicked' = TRUE
                   /\ act' = [NoAct EXCEPT !.click = "submit"]
                   /\ Raise
                   /\ UNCHANGED ret
                \/ \* visible and clicked; a success marker is found or not
                   /\ indeed_submit_visible(page')
                   /\ ~indeed_is_dry_run(req)
                   /\ submit_clicked' = TRUE
                   /\ act' = [NoAct EXCEPT !.click = "submit"]
                   /\ \E m \in {"Application submitted successfully", "Submit button clicked"} :
                         ret' = [success |-> TRUE, message |-> <<m>>]
                   /\ pc' = "indeed_final_screenshot"
                   /\ UNCHANGED exc
    /\ UNCHANGED <<handlerVars, managerVars, driver, req, context,
                   logged_in, blocker, fields, filled, sel, submitted, step,
                   screenshot, result>>

\* indeed.py:244-252  the continue control, else break
indeed_continue ==
    /\ pc = "indeed_continue"
    /\ \/ \* visible and clicked: continue
          /\ indeed_continue_visible(page)
          /\ act' = [NoAct EXCEPT !.click = "continue"]
          /\ pc' = "indeed_step"
          /\ UNCHANGED <<ret, exc>>
       \/ \* is_visible, click() or the settle wait raises
          /\ Raise
          /\ act' = NoAct
          /\ UNCHANGED ret
       \/ \* not visible: break
          /\ ~indeed_continue_visible(page)
          /\ ret' = CouldNotComplete(step)
          /\ pc' = "indeed_final_screenshot"
          /\ act' = NoAct
          /\ UNCHANGED exc
    /\ UNCHANGED <<handlerVars, managerVars, driver, req, context, page,
                   logged_in, blocker, fields, filled, sel, submitted, step,
                   screenshot, result, submit_clicked>>

\* indeed.py:356  status of the result
indeed_status(success, r) == IF success /\ ~r.dry_run THEN "success" ELSE "draft"

\* indeed.py:348-363  the final screenshot and the result
indeed_final_screenshot ==
    /\ pc = "indeed_final_screenshot"
    /\ ScreenshotThenReturn(IF ret.success THEN "submitted" ELSE "incomplete",
                            indeed_status(ret.success, req), ret.message, 0)
    /\ UNCHANGED <<handlerVars, managerVars, driver, req, context, page,
                   logged_in, blocker, fields, filled, sel, submitted, step,
                   ret, submit_clicked>>

indeed_apply ==
    \/ indeed_is_logged_in
    \/ indeed_click_apply_button
    \/ indeed_no_apply_button
    \/ indeed_check_external
    \/ indeed_external
    \/ indeed_login_required
    \/ indeed_check_blockers
    \/ indeed_blocked
    \/ indeed_step
    \/ indeed_steps_exhausted
    \/ indeed_submit
    \/ indeed_continue
    \/ indeed_final_screenshot

generic_apply ==
    \/ generic_check_blockers
    \/ generic_blocked
    \/ generic_click_apply
    \/ generic_detect_form_fields
    \/ generic_fill_common_fields
    \/ generic_upload_resume
    \/ generic_screenshot
    \/ generic_decide
    \/ generic_submit
    \/ generic_submit_exhausted
    \/ generic_finish

(***************************************************************************)
(* POST /analyze-form: analyze_job_form (main.py:460-675).                 *)
(***************************************************************************)
\* Rendered contents of the pages the analysis visits: those of the
\* application pages and a login wall that also carries a challenge widget.
AnalysisContents == Contents \cup {"login_captcha"}

AnalysisContentText(c) ==
    IF c = "login_captcha"
    THEN <<"<html>", "Please Log In", " to continue", "<div class=g-", "re",
           "captcha", ">">>
    ELSE ContentText(c)

\* The visible elements of the pages the analysis visits, in page order.
AnalysisForms ==
    Forms \cup
    { << [name |-> "email", required |-> TRUE],
         [name |-> "salary_expectation", required |-> TRUE],
         [name |-> "cover_letter", required |-> TRUE] >>,
      << [name |-> "email", required |-> FALSE],
         [name |-> "country", required |-> FALSE],
         [name |-> "salary_expectation", required |-> TRUE] >>,
      << [name |-> "salary_expectation", required |-> FALSE],
         [name |-> "work_Email", required |-> FALSE] >> }

\* the text of a field name
FieldNameText(name) ==
    IF name = "work_Email" THEN <<"work_", "Email">> ELSE <<name>>

\* main.py:484-497  the platform named by the job URL
analyze_platform(job_url) ==
    LET url_lower == Lower(UrlText(job_url))
    IN  IF Contains(<<"linkedin", ".co", "m">>, url_lower) THEN "linkedin"
        ELSE IF Contains(<<"indeed", ".co", "m">>, url_lower) THEN "indeed"
        ELSE IF Contains(<<"greenhouse.io">>, url_lower) THEN "greenhouse"
        ELSE IF Contains(<<"lever", ".co">>, url_lower) THEN "lever"
        ELSE IF \/ Contains(<<"workday", ".co", "m">>, url_lower)
                \/ Contains(<<"myworkday">>, url_lower) THEN "workday"
        ELSE IF Contains(<<"smartrecruiters">>, url_lower) THEN "smartrecruiters"
        ELSE "generic"

\* main.py:534
analyze_login_indicators ==
    << <<"sign in to apply">>, <<"login to apply">>, <<"sign in required">>,
       <<"please log in">>, <<"/login">>, <<"/signin">> >>

\* main.py:540
analyze_captcha_indicators ==
    << <<"captcha">>, <<"re", "captcha">>, <<"h", "captcha">>,
       <<"challenge-running">>, <<"cf-turnstile">> >>

\* variant of analyze_blockers that reports the first blocker only
analyze_first_blocker(p) ==
    LET content_lower == Lower(AnalysisContentText(p.content))
        page_url == Lower(UrlText(p.url))
    IN  IF \E k \in 1..Len(analyze_login_indicators) :
               \/ Contains(analyze_login_indicators[k], content_lower)
               \/ Contains(analyze_login_indicators[k], page_url)
        THEN <<"login_required">>
        ELSE IF \E k \in 1..Len(analyze_captcha_indicators) :
                    Contains(analyze_captcha_indicators[k], content_lower)
             THEN <<"captcha_detected">>
             ELSE <<>>

\* main.py:528-544  the blockers list of page p: login_required if a login
\* indicator is in the content or the URL, then captcha_detected if a
\* captcha indicator is in the content
analyze_blockers(p) ==
    LET content_lower == Lower(AnalysisContentText(p.content))
        page_url == Lower(UrlText(p.url))
    IN  (IF \E k \in 1..Len(analyze_login_indicators) :
                \/ Contains(analyze_login_indicators[k], content_lower)
                \/ Contains(analyze_login_indicators[k], page_url)
         THEN <<"login_required">> ELSE <<>>)
        \o (IF \E k \in 1..Len(analyze_captcha_indicators) :
                   Contains(analyze_captcha_indicators[k], content_lower)
            THEN <<"captcha_detected">> ELSE <<>>)

\* main.py:601-604
auto_fillable_patterns ==
    << <<"first_name">>, <<"last_name">>, <<"email">>, <<"phone">>, <<"city">>,
       <<"state">>, <<"country">>, <<"linkedin">>, <<"github">>,
       <<"portfolio">>, <<"current_title">> >>

\* main.py:608-609  any(pattern in field.name.lower() ...)
is_auto_fillable(name) ==
    \E k \in 1..Len(auto_fillable_patterns) :
        Contains(auto_fillable_patterns[k], Lower(FieldNameText(name)))

\* main.py:606-610
fillable_count(detected) ==
    Cardinality({k \in 1..Len(detected) : is_auto_fillable(detected[k].name)})

\* main.py:578  [f.name for f in detected_fields if f.required]
required_fields(detected) ==
    LET is_required(f) == f.required
        kept == SelectSeq(detected, is_required)
    IN  [k \in 1..Len(kept) |-> kept[k].name]

\* variant of total_required that always counts the required fields
total_required_only(detected) == Len(required_fields(detected))

\* main.py:612  len(required_fields) if required_fields else len(detected_fields)
total_required(detected) ==
    IF Len(required_fields(detected)) > 0 THEN Len(required_fields(detected))
    ELSE Len(detected)

\* main.py:613-614  int((fillable_count / max(total_required, 1)) * 100) if
\* total_required > 0 else 100, then min(100, ...).  The quotient is taken in
\* double arithmetic and truncated, which is the integer quotient of
\* 100 * fillable_count by total_required while total_required is below 50.
estimated_fill_rate(detected) ==
    LET total == total_required(detected)
        rate == IF total > 0
                THEN (fillable_count(detected) * 100) \div (IF total > 1 THEN total ELSE 1)
                ELSE 100
    IN  IF rate < 100 THEN rate ELSE 100

\* main.py:623  len(blockers) == 0 and estimated_fill_rate >= 60
can_apply(blockers, rate) == Len(blockers) = 0 /\ rate >= 60

\* main.py:625-629
analysis_message(detected, platform, blockers, rate) ==
    IF Len(blockers) > 0 THEN <<"Blocked:", blockers>>
    ELSE IF rate < 60 THEN <<"Low fill rate", rate>>
    ELSE <<"Found", Len(detected), "form fields on", platform>>

\* main.py:631-645  the response of a completed analysis
FormAnalysisResponse(job_url, detected, blockers, shot) ==
    LET rate == estimated_fill_rate(detected)
        platform == analyze_platform(job_url)
    IN  [success |-> TRUE, platform |-> platform, fields |-> detected,
         required_fields |-> required_fields(detected), blockers |-> blockers,
         can_apply |-> can_apply(blockers, rate),
         estimated_fill_rate |-> rate, screenshot_url |-> shot,
         message |-> analysis_message(detected, platform, blockers, rate)]

\* main.py:647-672  the response built by the except clauses
FailedAnalysis(e) ==
    [NoFormAnalysis EXCEPT
        !.platform = "unknown",
        !.blockers = IF e = "asyncio.TimeoutError" THEN <<"timeout">> ELSE <<"error">>,
        !.message = IF e = "asyncio.TimeoutError" THEN <<"Page load timeout">>
                    ELSE <<"Analysis failed:", e>>]

\* POST /analyze-form (main.py:460-474): the locals before the try block
analyze_job_form ==
    /\ handler = "idle"
    /\ \E url \in JobUrls, cookies \in BOOLEAN :
          request' = [kind |-> "analyze", job_url |-> url,
                      session_cookies |-> cookies]
    /\ analysis' = NoAnalysis
    /\ handler' = "analyze_new_context"
    /\ UNCHANGED <<job_urls, i, results, successful, drafted, failed, delays,
                   response, decryption, inspection, managerVars, attemptVars>>

\* an awaited call raises inside the try block of analyze_job_form
AnalysisRaise(e) ==
    /\ analysis' = [analysis EXCEPT !.exc = e]
    /\ handler' = "analyze_except"

\* main.py:477-478  new_context and new_page (BrowserManager.start and
\* new_context, base.py:125-174)
analyze_new_context ==
    /\ handler = "analyze_new_context"
    /\ \/ \* start(): the launch raises
          /\ browser = "none"
          /\ AnalysisRaise("playwright.Error")
          /\ UNCHANGED <<browser, opened, launches>>
       \/ \* self._browser.new_context(...) raises
          /\ browser' = "launched"
          /\ launches' = start(launches)
          /\ AnalysisRaise("playwright.Error")
          /\ UNCHANGED opened
       \/ \* the context is created, context.add_cookies(...) raises
          /\ request.session_cookies
          /\ browser' = "launched"
          /\ launches' = browser_new_context(start(launches))
          /\ opened' = opened \cup {NextContext}
          /\ AnalysisRaise("playwright.Error")
       \/ \* new_context returns the context; context.new_page() raises
          /\ browser' = "launched"
          /\ launches' = browser_new_context(start(launches))
          /\ opened' = opened \cup {NextContext}
          /\ analysis' = [analysis EXCEPT !.context = NextContext,
                                          !.exc = "playwright.Error"]
          /\ handler' = "analyze_except"
       \/ \* new_context returns the context; the page is opened
          /\ browser' = "launched"
          /\ launches' = browser_new_context(start(launches))
          /\ opened' = opened \cup {NextContext}
          /\ analysis' = [analysis EXCEPT !.context = NextContext]
          /\ handler' = "analyze_goto"
    /\ UNCHANGED <<request, job_urls, i, results, successful, drafted, failed,
                   delays, response, decryption, inspection, closed, attemptVars>>

\* main.py:481  page.goto(...); main.py:499-526  the job title and the
\* company are looked for, every failure swallowed
analyze_goto ==
    /\ handler = "analyze_goto"
    /\ \/ /\ \E u \in Landing(request.job_url), c \in AnalysisContents :
                analysis' = [analysis EXCEPT
                                !.page = [url |-> u, content |-> c, controls |-> {}]]
          /\ handler' = "analyze_check_blockers"
       \/ \* the navigation times out or fails
          \E e \in PlaywrightErrors : AnalysisRaise(e)
    /\ UNCHANGED <<request, job_urls, i, results, successful, drafted, failed,
                   delays, response, decryption, inspection, managerVars, attemptVars>>

\* main.py:528-544  content = await page.content(); the blockers list
analyze_check_blockers ==
    /\ handler = "analyze_check_blockers"
    /\ \/ /\ analysis' = [analysis EXCEPT !.blockers = analyze_blockers(analysis.page)]
          /\ handler' = "analyze_detect_form_fields"
       \/ \* page.content() raises
          AnalysisRaise("playwright.Error")
    /\ UNCHANGED <<request, job_urls, i, results, successful, drafted, failed,
                   delays, response, decryption, inspection, managerVars, attemptVars>>

\* main.py:546-559  an apply button is clicked if one is visible, every
\* failure swallowed; main.py:561-563  detected_fields = await
\* GenericApplicator(...).detect_form_fields(page)
analyze_detect_form_fields ==
    /\ handler = "analyze_detect_form_fields"
    /\ \/ /\ \E elements \in AnalysisForms :
                \E broken \in SUBSET (1..Len(elements)) :
                   analysis' = [analysis EXCEPT
                                   !.detected = detect_form_fields(elements, broken),
                                   !.elements = elements,
                                   !.broken = broken]
          /\ handler' = "analyze_respond"
       \/ \* page.locator(...).all() raises (base.py:323)
          AnalysisRaise("playwright.Error")
    /\ UNCHANGED <<request, job_urls, i, results, successful, drafted, failed,
                   delays, response, decryption, inspection, managerVars, attemptVars>>

\* main.py:565-645  the fields, the fill rate, the screenshot (a failure of
\* take_screenshot is swallowed) and the return statement
analyze_respond ==
    /\ handler = "analyze_respond"
    /\ \E shot \in {"none", "form_analysis"} :
          analysis' = [analysis EXCEPT
                          !.ret = FormAnalysisResponse(request.job_url, analysis.detected,
                                                       analysis.blockers, shot)]
    /\ handler' = "analyze_finally"
    /\ UNCHANGED <<request, job_urls, i, results, successful, drafted, failed,
                   delays, response, decryption, inspection, managerVars, attemptVars>>

\* main.py:647-672  except asyncio.TimeoutError / except Exception
analyze_except ==
    /\ handler = "analyze_except"
    /\ analysis' = [analysis EXCEPT !.ret = FailedAnalysis(analysis.exc),
                                    !.exc = "none"]
    /\ handler' = "analyze_finally"
    /\ UNCHANGED <<request, job_urls, i, results, successful, drafted, failed,
                   delays, response, decryption, inspection, managerVars, attemptVars>>

\* main.py:673-675  finally: if context: await context.close(); then the
\* response leaves the handler, or the exception of close() does
analyze_finally ==
    /\ handler = "analyze_finally"
    /\ \/ \* context is None
          /\ analysis.context = 0
          /\ response' = [NoResponse EXCEPT !.kind = "analysis",
                                            !.analysis = analysis.ret]
          /\ UNCHANGED closed
       \/ \* the context is closed
          /\ analysis.context # 0
          /\ closed' = closed \cup {analysis.context}
          /\ response' = [NoResponse EXCEPT !.kind = "analysis",
                                            !.analysis = analysis.ret]
       \/ \* context.close() raises: the HTTP layer answers 500
          /\ analysis.context # 0
          /\ response' = [NoResponse EXCEPT !.kind = "error"]
          /\ UNCHANGED closed
    /\ handler' = "done"
    /\ UNCHANGED <<request, job_urls, i, results, successful, drafted, failed,
                   delays, analysis, decryption, inspection, browser, opened,
                   launches, attemptVars>>

(***************************************************************************)
(* security/encryption.py: decrypt and decrypt_cookies.                    *)
(*                                                                         *)
(* A payload is a sequence of tokens; ":" is the separator and every other *)
(* token is the base64 text of one component.                              *)
(***************************************************************************)
\* encryption.py:19-24  IV_LENGTH, AUTH_TAG_LENGTH, SALT_LENGTH, CURRENT_VERSION
IV_LENGTH == 16
AUTH_TAG_LENGTH == 16
SALT_LENGTH == 32
CURRENT_VERSION == <<"v1">>

\* The component texts of the model's payloads.  "pad" is a text base64
\* rejects; the digits in the other names give the number of bytes the text
\* decodes to.  "tag16" is the tag the cipher computed for the payload's
\* ciphertext under the service's secret, the salt "salt32" and the IV
\* "iv16"; "forged16" is another 16-byte tag.
\* ciphertexts, by the plaintext they hold: a JSON object, a JSON array, a
\* text that is no JSON, a JSON document nested deeper than the
\* interpreter's recursion limit, and bytes that are no UTF-8
Ciphertexts == {"ct_object", "ct_array", "ct_text", "ct_deep", "ct_bytes"}

\* the payloads of the model: every combination of the component texts, a
\* payload of four components and one of six
Payloads ==
    { <<v, ":", s, ":", n, ":", t, ":", c>> :
         v \in {"v1", "v2"}, s \in {"salt32", "salt16", "pad"},
         n \in {"iv16", "iv12"}, t \in {"tag16", "forged16", "tag8"},
         c \in Ciphertexts }
    \cup { <<"v1", ":", "salt32", ":", "iv16", ":", "tag16">>,
           <<"v1", ":", "salt32", ":", "iv16", ":", "tag16", ":", "ct_object",
             ":", "ct_object">> }


\* Python: s.split(':')
RECURSIVE split(_)
split(s) ==
    IF \A k \in 1..Len(s) : s[k] # ":" THEN <<s>>
    ELSE LET first == CHOOSE k \in 1..Len(s) :
                          s[k] = ":" /\ \A j \in 1..(k - 1) : s[j] # ":"
         IN  <<SubSeq(s, 1, first - 1)>> \o split(SubSeq(s, first + 1, Len(s)))

\* base64.b64decode(text): the number of bytes, or -1 when it raises
\* binascii.Error
b64decode(text) ==
    IF text = <<>> THEN 0
    ELSE IF Len(text) # 1 THEN -1
    ELSE CASE text[1] \in {"salt32"} -> 32
           [] text[1] \in {"salt16", "iv16", "tag16", "forged16"} -> 16
           [] text[1] = "iv12" -> 12
           [] text[1] = "tag8" -> 8
           [] text[1] \in Ciphertexts -> 24
           [] OTHER -> -1

\* encryption.py:98-105  decryptor.finalize() accepts the tag
authentic(secret, salt, iv, tag, ciphertext) ==
    /\ secret = "right"
    /\ salt = <<"salt32">>
    /\ iv = <<"iv16">>
    /\ tag = <<"tag16">>
    /\ Len(ciphertext) = 1 /\ ciphertext[1] \in Ciphertexts

\* encryption.py:66-107  the try block of decrypt: the exception it raises
\* ("none" when it returns) and the plaintext it returns
decrypt_try(encrypted_payload, encryption_secret) ==
    LET parts == split(encrypted_payload)
        raises(e) == [raised |-> e, value |-> "none"]
    IN  IF Len(parts) # 5 THEN raises("EncryptionError")
        ELSE IF parts[1] # CURRENT_VERSION THEN raises("EncryptionError")
        ELSE IF \E k \in 2..5 : b64decode(parts[k]) = -1 THEN raises("binascii.Error")
        ELSE IF b64decode(parts[2]) # SALT_LENGTH THEN raises("EncryptionError")
        ELSE IF b64decode(parts[3]) # IV_LENGTH THEN raises("EncryptionError")
        ELSE IF b64decode(parts[4]) # AUTH_TAG_LENGTH THEN raises("EncryptionError")
        ELSE IF ~authentic(encryption_secret, parts[2], parts[3], parts[4], parts[5])
             THEN raises("InvalidTag")
        ELSE IF parts[5] = <<"ct_bytes">> THEN raises("UnicodeDecodeError")
        ELSE [raised |-> "none", value |-> parts[5][1]]

\* encryption.py:47-112  decrypt: without a secret it raises EncryptionError
\* (encryption.py:61-64); every exception of the try block that is no
\* EncryptionError is replaced by one (encryption.py:109-112)
decrypt(encrypted_payload, encryption_secret) ==
    IF encryption_secret = "unset"
    THEN [raised |-> "EncryptionError", value |-> "none"]
    ELSE LET out == decrypt_try(encrypted_payload, encryption_secret)
         IN  IF out.raised = "none" THEN out
             ELSE [raised |-> "EncryptionError", value |-> "none"]

\* json.loads(text): the exception it raises ("none" when it returns)
json_loads(plaintext) ==
    CASE plaintext = "ct_text" -> "JSONDecodeError"
      [] plaintext = "ct_deep" -> "RecursionError"
      [] OTHER -> "none"

\* encryption.py:115-139  decrypt_cookies: only JSONDecodeError is caught
decrypt_cookies(encrypted_payload, encryption_secret) ==
    LET decrypted_json == decrypt(encrypted_payload, encryption_secret)
        raises(e) == [raised |-> e, value |-> "none"]
    IN  IF decrypted_json.raised # "none" THEN raises(decrypted_json.raised)
        ELSE IF json_loads(decrypted_json.value) = "JSONDecodeError"
             THEN raises("EncryptionError")
        ELSE IF json_loads(decrypted_json.value) # "none"
             THEN raises(json_loads(decrypted_json.value))
        ELSE IF decrypted_json.value # "ct_object" THEN raises("EncryptionError")
        ELSE [raised |-> "none", value |-> "cookies"]

\* a caller recovers the session cookies: one call of decrypt_cookies
call_decrypt_cookies ==
    /\ handler = "idle"
    /\ \E payload \in Payloads, secret \in {"unset", "right", "wrong"} :
          LET out == decrypt_cookies(payload, secret)
          IN  decryption' = [payload |-> payload, secret |-> secret,
                             raised |-> out.raised, value |-> out.value]
    /\ handler' = "done"
    /\ UNCHANGED <<request, job_urls, i, results, successful, drafted, failed,
                   delays, response, analysis, inspection, managerVars,
                   attemptVars>>

(***************************************************************************)
(* LinkedInApplicator.detect_form_fields (linkedin.py:32-95) and           *)
(* IndeedApplicator.detect_form_fields (indeed.py:32-91).                  *)
(***************************************************************************)
\* The field containers of the model's pages: the text of the container's
\* label (<<>> when it has none), the first kind of control found in it
\* ("none" when it holds no control), the type attribute of its input
\* ("none" when absent) and whether it carries Indeed's required marker.
Containers ==
    { [label |-> <<>>, control |-> "file", input_type |-> "file", badge |-> FALSE],
      [label |-> <<" ", "Phone", "*">>, control |-> "input", input_type |-> "tel",
       badge |-> TRUE],
      [label |-> <<"City", " ">>, control |-> "input", input_type |-> "none",
       badge |-> FALSE],
      [label |-> <<"Notes">>, control |-> "none", input_type |-> "none",
       badge |-> FALSE] }


\* Python: label.strip(), on a text whose fragments are words or one space
RECURSIVE strip(_)
strip(text) ==
    IF text = <<>> THEN <<>>
    ELSE IF Head(text) = " " THEN strip(Tail(text))
    ELSE IF text[Len(text)] = " " THEN strip(SubSeq(text, 1, Len(text) - 1))
    ELSE text

\* linkedin.py:42-90  the FormField of one container whose inspection does
\* not raise, as a list of no or one field
linkedin_form_field(container) ==
    LET label == container.label
        required == IF label # <<>> THEN Contains(<<"*">>, label) ELSE FALSE
        named(default) == IF label # <<>> THEN strip(label) ELSE <<default>>
        shown == IF label # <<>> THEN strip(label) ELSE <<>>
    IN  CASE container.control = "file" ->
               << [name |-> <<"resume">>, field_type |-> "file",
                   label |-> IF label # <<>> THEN strip(label) ELSE <<"Resume">>,
                   required |-> required] >>
          [] container.control = "select" ->
               << [name |-> named("select_field"), field_type |-> "select",
                   label |-> shown, required |-> required] >>
          [] container.control = "radio" ->
               << [name |-> named("radio_field"), field_type |-> "radio",
                   label |-> shown, required |-> required] >>
          [] container.control = "textarea" ->
               << [name |-> named("textarea_field"), field_type |-> "textarea",
                   label |-> shown, required |-> required] >>
          [] container.control = "input" ->
               << [name |-> named("text_field"),
                   field_type |-> IF container.input_type \in {"none", "text"}
                                  THEN "text"
                                  ELSE IF container.input_type = "email"
                                       THEN "email" ELSE "phone",
                   label |-> shown, required |-> required] >>
          [] OTHER -> <<>>

\* indeed.py:42-86  the FormField of one container whose inspection does not
\* raise, as a list of no or one field
indeed_form_field(container) ==
    LET label == container.label
        required == container.badge
        named(default) == IF label # <<>> THEN strip(label) ELSE <<default>>
        shown == IF label # <<>> THEN strip(label) ELSE <<>>
    IN  CASE container.control = "file" ->
               << [name |-> <<"resume">>, field_type |-> "file",
                   label |-> IF label # <<>> THEN strip(label) ELSE <<"Resume">>,
                   required |-> required] >>
          [] container.control = "select" ->
               << [name |-> named("select_field"), field_type |-> "select",
                   label |-> shown, required |-> required] >>
          [] container.control = "radio" ->
               << [name |-> named("radio_field"), field_type |-> "radio",
                   label |-> shown, required |-> required] >>
          [] container.control = "textarea" ->
               << [name |-> named("textarea_field"), field_type |-> "textarea",
                   label |-> shown, required |-> required] >>
          [] container.control = "input" ->
               << [name |-> named("text_field"), field_type |-> "text",
                   label |-> shown, required |-> required] >>
          [] OTHER -> <<>>

\* the implementation of a driver applied to one container
container_field(d, container) ==
    IF d = "linkedin" THEN linkedin_form_field(container)
    ELSE indeed_form_field(container)

\* linkedin.py:40-90, indeed.py:40-86  the loop over the containers from
\* position k; a container whose inspection raises adds nothing
\* (`except Exception: continue`)
RECURSIVE containers_from(_, _, _, _)
containers_from(d, k, containers, broken) ==
    IF k > Len(containers) THEN <<>>
    ELSE (IF k \in broken THEN <<>> ELSE container_field(d, containers[k]))
         \o containers_from(d, k + 1, containers, broken)

\* linkedin.py:32-95, indeed.py:32-91  detect_form_fields of a platform
\* driver: the outer try returns no field when the enumeration itself raises
platform_detect_form_fields(d, enumerated, containers, broken) ==
    IF ~enumerated THEN <<>> ELSE containers_from(d, 1, containers, broken)

\* a caller inspects the form of a platform page: one call of
\* detect_form_fields of the LinkedIn or the Indeed driver
call_detect_form_fields ==
    /\ handler = "idle"
    /\ \E d \in {"linkedin", "indeed"}, enumerated \in BOOLEAN,
          containers \in ({<<>>} \cup {<<c>> : c \in Containers}
                                \cup {<<c, d>> : c, d \in Containers}) :
          \E broken \in SUBSET (1..Len(containers)) :
             inspection' =
                 [driver |-> d, enumerated |-> enumerated,
                  containers |-> containers, broken |-> broken,
                  fields |-> platform_detect_form_fields(d, enumerated,
                                                         containers, broken)]
    /\ handler' = "done"
    /\ UNCHANGED <<request, job_urls, i, results, successful, drafted, failed,
                   delays, response, analysis, decryption, managerVars,
                   attemptVars>>

(***************************************************************************)
(* Two requests served at once: their calls of BrowserManager.new_context  *)
(* (base.py:148-174) interleave at the awaits of start (base.py:125-137).  *)
(***************************************************************************)
\* the callers of the scenario
Tasks == {1, 2}

\* two apply requests arrive together (main.py:283-326); each one's apply
\* begins with new_context, whose first statement is `await self.start()`
concurrent_apply ==
    /\ handler = "idle"
    /\ handler' = "concurrent"
    /\ launches' = [launches EXCEPT !.tasks = [t \in Tasks |-> "start"]]
    /\ UNCHANGED <<request, job_urls, i, results, successful, drafted, failed,
                   delays, response, analysis, decryption, inspection,
                   browser, opened, closed, attemptVars>>


\* base.py:127-128  `if self._browser is None:` and, when it is, the call of
\* async_playwright().start(), awaited
task_start ==
    /\ handler = "concurrent"
    /\ \E t \in Tasks :
          /\ launches.tasks[t] = "start"
          /\ launches' = [launches EXCEPT
                             !.tasks[t] = IF launches.handle = 0
                                          THEN "playwright" ELSE "new_context"]
    /\ UNCHANGED <<browser, opened>>
    /\ UNCHANGED <<handlerVars, closed, attemptVars>>

\* base.py:128-129  async_playwright().start() completes, _playwright is
\* assigned and chromium.launch(...) is called, awaited
task_playwright ==
    /\ handler = "concurrent"
    /\ \E t \in Tasks :
          /\ launches.tasks[t] = "playwright"
          /\ launches' = [launches EXCEPT !.tasks[t] = "launch"]
    /\ UNCHANGED <<browser, opened>>
    /\ UNCHANGED <<handlerVars, closed, attemptVars>>

\* base.py:129-137  chromium.launch(...) completes and _browser is assigned
\* the new browser, or the launch raises
task_launch ==
    /\ handler = "concurrent"
    /\ \E t \in Tasks :
          /\ launches.tasks[t] = "launch"
          /\ \/ /\ launches' = [launches EXCEPT
                                   !.launched = @ + 1,
                                   !.handle = launches.launched + 1,
                                   !.tasks[t] = "new_context"]
                /\ browser' = "launched"
             \/ /\ launches' = [launches EXCEPT !.tasks[t] = "raised"]
                /\ UNCHANGED browser
    /\ UNCHANGED opened
    /\ UNCHANGED <<handlerVars, closed, attemptVars>>

\* base.py:156-160  self._browser.new_context(...) creates the context from
\* the browser _browser refers to now
task_new_context ==
    /\ handler = "concurrent"
    /\ \E t \in Tasks :
          /\ launches.tasks[t] = "new_context"
          /\ launches' = [browser_new_context(launches) EXCEPT
                             !.tasks[t] = "returned"]
    /\ opened' = opened \cup {NextContext}
    /\ UNCHANGED browser
    /\ UNCHANGED <<handlerVars, closed, attemptVars>>

Next ==
    \/ apply_to_job
    \/ apply_to_job_return
    \/ handler_error
    \/ batch_apply_to_jobs
    \/ batch_next
    \/ batch_record
    \/ batch_sleep
    \/ batch_return
    \/ analyze_job_form
    \/ analyze_new_context
    \/ analyze_goto
    \/ analyze_check_blockers
    \/ analyze_detect_form_fields
    \/ analyze_respond
    \/ analyze_except
    \/ analyze_finally
    \/ call_decrypt_cookies
    \/ call_detect_form_fields
    \/ concurrent_apply
    \/ task_start
    \/ task_playwright
    \/ task_launch
    \/ task_new_context
    \/ apply_new_context
    \/ apply_goto
    \/ apply_except
    \/ apply_finally
    \/ generic_apply
    \/ linkedin_apply
    \/ indeed_apply

Spec == Init /\ [][Next]_vars

(***************************************************************************)
(* Properties.                                                             *)
(***************************************************************************)

\* C1: for a request with dry_run = true no driver clicks a submit control at
\* any point of apply, and the status of the result (in apply, in the /apply
\* response and in every result of a batch) is never success.
C1_DryRunNeverSubmits ==
    /\ req.dry_run =>
          /\ act.click # "submit"
          /\ ~submit_clicked
          /\ ~submitted
          /\ result.status # "success"
    /\ (request.kind \in {"apply", "batch"} /\ request.dry_run) =>
          /\ response.result.status # "success"
          /\ \A k \in 1..Len(results) : results[k].status # "success"

\* C1: a dry-run attempt that reached a visible submit control has returned.
C1_Witness ==
    /\ pc = "returned"
    /\ req.dry_run
    /\ driver = "indeed"
    /\ ret.success
    /\ result.status = "draft"

\* C2: whenever the result of apply has status success, a submit control was
\* clicked during the attempt and the request was not a dry run.
C2_SuccessImpliesSubmit ==
    result.status = "success" => submit_clicked /\ ~req.dry_run

\* C2: an attempt has returned success.
C2_Witness ==
    /\ pc = "returned"
    /\ result.status = "success"
    /\ submit_clicked

\* C3 as stated: when apply has returned or raised, every context created so
\* far has been closed.
C3_ContextsClosedOnExit ==
    pc \in {"returned", "propagated"} => opened \subseteq closed

\* C4 as stated: apply never lets an exception reach its caller, and when it
\* returns there is a result.
C4_NeverPropagates ==
    /\ pc # "propagated"
    /\ pc = "returned" => result.status \in ApplicationStatus

C7_BucketsPartition ==
    LET count(S) == Cardinality({k \in 1..Len(results) : results[k].status \in S})
    IN  /\ successful = count({"success"})
        /\ drafted = count({"draft"})
        /\ failed = count(ApplicationStatus \ {"success", "draft"})
        /\ successful + drafted + failed = Len(results)
        /\ response.kind = "batch" =>
              /\ response.successful + response.drafted + response.failed
                    = response.total_jobs
              /\ response.total_jobs = Len(response.results)
              /\ response.results = results

\* C7: a batch of two attempts has answered with one draft and one failed
\* result.
C7_Witness ==
    /\ response.kind = "batch"
    /\ response.total_jobs = 2
    /\ response.drafted = 1
    /\ response.failed = 1

\* C8 as stated: the batch response has total_jobs = min(len(job_urls),
\* max_applications) and that many attempts were made.
C8_TotalIsMin ==
    response.kind = "batch" =>
        LET n == Len(request.job_urls)
            m == request.max_applications
            least == IF n < m THEN n ELSE m
        IN  /\ response.total_jobs = least
            /\ Len(response.results) = least

\* C9 as stated: while an attempt of a batch holds a context, every other
\* context created so far has been closed, and results[k] is the result for
\* job_urls[k].
C9_OneContextAtATime ==
    /\ (handler = "batch_apply" /\ context # 0) => (opened \ closed) \subseteq {context}
    /\ \A k \in 1..Len(results) : results[k].job_url = job_urls[k]

\* C10: in a batch of n URLs the loop sleeps max(n-1, 0) times: not before
\* the first attempt, once after each attempt but the last, and not after
\* the last.
C10_DelaysBetweenAttempts ==
    /\ handler \in {"batch_loop", "batch_apply"} =>
          delays = (IF Len(results) >= 1 THEN Len(results) - 1 ELSE 0)
                   + (IF i >= 1 /\ i < Len(job_urls) THEN 1 ELSE 0)
    /\ handler = "batch_sleep" =>
          /\ delays = Len(results) - 1
          /\ Len(results) < Len(job_urls)
    /\ response.kind = "batch" =>
          delays = IF Len(job_urls) >= 1 THEN Len(job_urls) - 1 ELSE 0

\* C10: a batch of two URLs has answered after one sleep.
C10_Witness ==
    /\ response.kind = "batch"
    /\ Len(job_urls) = 2
    /\ delays = 1

\* C11 as stated: for a single apply request a platform hint naming a
\* platform selects that platform's driver whatever the URL is; without a
\* hint the domain in the URL decides.
C11_HintWins ==
    (handler = "apply" /\ driver # "none") =>
        driver = IF request.platform = "linkedin" THEN "linkedin"
                 ELSE IF request.platform = "indeed" THEN "indeed"
                 ELSE IF Contains(<<"linkedin", ".co", "m">>, Lower(UrlText(request.job_url)))
                      THEN "linkedin"
                 ELSE IF Contains(<<"indeed", ".co", "m">>, Lower(UrlText(request.job_url)))
                      THEN "indeed"
                 ELSE "generic"

\* C12: in each iteration of a step loop the fill of the step comes first,
\* then the submit control is looked for, then the continue control; the
\* continue control is looked for and clicked only in a step whose submit
\* control is not visible, so a step showing both takes the submit branch.
C12_FillSubmitContinueOrder ==
    [][ /\ pc' = "linkedin_submit" => pc \in {"linkedin_step", "linkedin_step_screenshot"}
        /\ pc' = "indeed_submit" => pc = "indeed_step"
        /\ pc' = "linkedin_next" => pc = "linkedin_submit" /\ "submit" \notin page'.controls
        /\ pc' = "indeed_continue" => pc = "indeed_submit" /\ "submit" \notin page'.controls
        /\ (driver \in {"linkedin", "indeed"} /\ (act'.fills > 0 \/ act'.upload)) =>
              pc \in {"linkedin_step", "indeed_step"}
        /\ (driver \in {"linkedin", "indeed"} /\ act'.click = "submit") =>
              pc \in {"linkedin_submit", "indeed_submit"}
        /\ act'.click = "continue" =>
              /\ pc \in {"linkedin_next", "indeed_continue"}
              /\ "submit" \notin page.controls
      ]_vars

\* C12: a step showing both controls has taken the submit branch.
C12_Witness ==
    /\ driver = "linkedin"
    /\ page.controls = {"submit", "continue"}
    /\ act.click = "submit"

\* C13 as stated: fill_common_fields fills and counts an attribute at most
\* once, so the count is the number of distinct attributes set and is at
\* most the number of attributes holding a value in the profile.
C13_OneFillPerAttribute ==
    /\ Len(act.filled_fields)
          = Cardinality({act.filled_fields[k] : k \in 1..Len(act.filled_fields)})
    /\ Len(act.filled_fields) <= Cardinality(act.with_value)
    /\ pc \in {"generic_upload_resume", "generic_screenshot"} =>
          filled <= Cardinality(act.with_value)

\* C14 as stated: when page.goto exceeds its timeout the attempt's result
\* has status timeout and message "Page load timeout".
C14_NavigationTimeoutIsTimeout ==
    [][ (pc = "except" /\ exc = "playwright.TimeoutError") =>
            /\ result'.status = "timeout"
            /\ result'.message = <<"Page load timeout">> ]_vars

\* C15: in every result of apply, and of the /apply handler, fields_missing
\* is non-empty only if the status is draft.
C15_MissingOnlyInDraft ==
    /\ result.fields_missing # <<>> => result.status = "draft"
    /\ response.result.fields_missing # <<>> => response.result.status = "draft"

\* C15: an attempt has returned a draft that lists a missing field.
C15_Witness ==
    /\ pc = "returned"
    /\ result.status = "draft"
    /\ result.fields_missing = <<"salary_expectation">>

\* C16 as stated: in the generic driver with dry_run = false, when a
\* detected required field has no profile attribute holding a value (country
\* holds none in the model's profiles, salary_expectation is no attribute),
\* no submit control is looked for or clicked and the result is not success.
C16_UnmetRequiredIsDraft ==
    LET unmet == {k \in 1..Len(fields) :
                     fields[k].required /\ fields[k].name \notin UNION Profiles}
    IN  (driver = "generic" /\ ~req.dry_run /\ unmet # {}) =>
            /\ pc \notin {"generic_submit", "generic_finish"}
            /\ ~submit_clicked
            /\ result.status # "success"

C21_NoScreenshotUnlessAsked ==
    /\ (driver # "none" /\ ~req.take_screenshot) =>
          /\ act.shot = "none"
          /\ screenshot = "none"
          /\ result.screenshot = "none"
    /\ (request.kind = "apply" /\ ~request.take_screenshot) =>
          response.result.screenshot = "none"

\* C21: a dry run of the quick-apply driver without take_screenshot went
\* through its step and final checkpoints and has returned.
C21_Witness ==
    /\ pc = "returned"
    /\ driver = "linkedin"
    /\ ~req.take_screenshot
    /\ req.dry_run
    /\ ret.success
    /\ result.status = "draft"
    /\ result.screenshot = "none"

\* C22 as stated: while an attempt works on its page it holds a context of
\* its own that is open, and in a batch that context is the only open one:
\* the contexts created for the earlier attempts are closed.
C22_OneFreshContextPerAttempt ==
    LET on_page == /\ driver # "none"
                   /\ pc \notin {"idle", "new_context", "except", "finally",
                                 "returned", "propagated"}
    IN  /\ on_page => (context # 0 /\ context \in opened \ closed)
        /\ (on_page /\ handler = "batch_apply") => opened \ closed = {context}

\* C23 (amended): in every successful analyze-form response
\* 0 <= estimated_fill_rate <= 100, and with fillable the number of detected
\* fields whose name matches an auto-fillable pattern and D the number of
\* detected required fields, or the number of detected fields when none is
\* required, estimated_fill_rate is 100 when D = 0 and
\* min(100, floor(100 * fillable / D)) otherwise.
C23_FillRateOverCountedFields ==
    (response.kind = "analysis" /\ response.analysis.success) =>
        LET fs == response.analysis.fields
            rate == response.analysis.estimated_fill_rate
            fillable == Cardinality({k \in 1..Len(fs) : is_auto_fillable(fs[k].name)})
            R == Cardinality({k \in 1..Len(fs) : fs[k].required})
            D == IF R > 0 THEN R ELSE Len(fs)
            quotient == IF D = 0 THEN 100 ELSE (100 * fillable) \div D
        IN  /\ rate \in 0..100
            /\ rate = IF quotient > 100 THEN 100 ELSE quotient
            /\ Len(response.analysis.required_fields) = R

\* C23: the analysis of a page with two fields, none required and one
\* auto-fillable, has answered with a fill rate of 50.
C23_Witness ==
    /\ response.kind = "analysis"
    /\ response.analysis.success
    /\ Len(response.analysis.fields) = 2
    /\ response.analysis.required_fields = <<>>
    /\ response.analysis.estimated_fill_rate = 50

\* C23 as stated: in every successful analyze-form response
\* estimated_fill_rate is min(100, floor(100 * fillable / R)) with R the
\* number of detected required fields (a quotient by R = 0 is read as
\* exceeding the cap).
C23_FillRateOverRequired ==
    (response.kind = "analysis" /\ response.analysis.success) =>
        LET fs == response.analysis.fields
            rate == response.analysis.estimated_fill_rate
            fillable == Cardinality({k \in 1..Len(fs) : is_auto_fillable(fs[k].name)})
            R == Cardinality({k \in 1..Len(fs) : fs[k].required})
            quotient == IF R = 0 THEN 100 ELSE (100 * fillable) \div R
        IN  /\ rate \in 0..100
            /\ rate = IF quotient > 100 THEN 100 ELSE quotient

C25_OnlyEncryptionError ==
    decryption.payload # <<>> =>
        LET parts == split(decryption.payload)
            malformed ==
                \/ Len(parts) # 5
                \/ parts[1] # <<"v1">>
                \/ b64decode(parts[2]) # 32
                \/ b64decode(parts[3]) # 16
                \/ b64decode(parts[4]) # 16
                \/ ~authentic(decryption.secret, parts[2], parts[3], parts[4], parts[5])
        IN  /\ decryption.raised \in {"none", "EncryptionError"}
            /\ decryption.raised # "none" => decryption.value = "none"
            /\ malformed => decryption.raised = "EncryptionError"

\* C26: fill_common_fields and upload_resume never raise: the generic driver
\* always goes on from them to its next step with no exception pending.  A
\* failure is passed over: every profile attribute with a value for which
\* some selector that did not raise matches a visible input is filled, and
\* the resume is uploaded (and counted once) whenever the file exists and
\* some upload selector that did not raise matches a file input, the first
\* such selector being the one used.
C26_FillAndUploadNeverRaise ==
    [][ /\ pc = "generic_fill_common_fields" =>
             /\ pc' \in {"generic_upload_resume", "generic_screenshot"}
             /\ exc' = "none"
             /\ \A f \in 1..Len(field_mapping) :
                   ( /\ field_mapping[f].field \in act'.with_value
                     /\ \E k \in 1..Len(field_mapping[f].selectors) :
                           /\ field_mapping[f].selectors[k] \notin act'.raising
                           /\ \E inp \in act'.inputs :
                                 Contains(Lower(field_mapping[f].selectors[k]),
                                          Lower(inp.text)) )
                   => \E n \in 1..Len(act'.filled_fields) :
                         act'.filled_fields[n] = field_mapping[f].field
             /\ filled' = Len(act'.filled_fields)
        /\ pc = "generic_upload_resume" =>
             /\ pc' = "generic_screenshot"
             /\ exc' = "none"
             /\ LET usable == IF act'.exists
                              THEN act'.file_inputs \ act'.upload_raising
                              ELSE {}
                IN  IF usable = {}
                    THEN ~act'.upload /\ filled' = filled
                    ELSE /\ act'.upload
                         /\ filled' = filled + 1
                         /\ act'.upload_selector \in usable
                         /\ \A k \in usable : act'.upload_selector <= k
      ]_vars

\* C26 witness: the selector email raised and the attribute city was filled
\* after it, by both of its selectors; the attempt went on to the upload.
C26_Witness ==
    /\ pc = "generic_upload_resume"
    /\ exc = "none"
    /\ act.with_value = {"email", "city"}
    /\ act.raising = {<<"email">>}
    /\ act.inputs = {[attr |-> "placeholder", text |-> <<"location_", "city">>]}
    /\ act.filled_fields = <<"city", "city">>
    /\ filled = 2

\* C27 as stated: check_for_blockers and detect_form_fields return normally
\* whatever the page does: the step of apply that calls one of them never
\* ends with an exception delivered to apply's except clauses.
C27_InspectionNeverRaises ==
    [][ (pc \in {"generic_check_blockers", "linkedin_check_blockers",
                 "indeed_check_blockers", "generic_detect_form_fields"})
        => (pc' # "except" /\ exc' = "none") ]_vars

\* C28: a failure while classifying one element drops that element only.
\* The fields GenericApplicator.detect_form_fields hands to apply and to the
\* form analysis are the fields of the elements whose classification did
\* not raise, all of them and in page order; the fields the LinkedIn and
\* the Indeed implementation return are, in page order, those of all the
\* containers that hold a control and whose inspection did not raise.
C28_BrokenElementsOnlySkipped ==
    LET kept(n, K) == CHOOSE j \in K : Cardinality({m \in K : m <= j}) = n
    IN  /\ pc = "generic_fill_common_fields" =>
             LET K == (1..Len(act.elements)) \ act.broken
             IN  /\ Len(fields) = Cardinality(K)
                 /\ \A n \in 1..Len(fields) :
                       fields[n] = FormField(act.elements[kept(n, K)])
        /\ handler = "analyze_respond" =>
             LET K == (1..Len(analysis.elements)) \ analysis.broken
             IN  /\ Len(analysis.detected) = Cardinality(K)
                 /\ \A n \in 1..Len(analysis.detected) :
                       analysis.detected[n] = FormField(analysis.elements[kept(n, K)])
        /\ inspection.enumerated =>
             LET K == {j \in (1..Len(inspection.containers)) \ inspection.broken :
                          container_field(inspection.driver,
                                          inspection.containers[j]) # <<>>}
             IN  /\ Len(inspection.fields) = Cardinality(K)
                 /\ \A n \in 1..Len(inspection.fields) :
                       <<inspection.fields[n]>> =
                           container_field(inspection.driver,
                                           inspection.containers[kept(n, K)])

\* C28 witness: the first of two elements could not be classified and the
\* second one is the only field detected.
C28_Witness ==
    /\ pc = "generic_fill_common_fields"
    /\ Len(act.elements) = 2
    /\ act.broken = {1}
    /\ fields = <<FormField(act.elements[2])>>

\* C29: check_for_blockers looks for a login wall first: on a page where a
\* login indicator occurs (in the URL or the content) and a challenge
\* indicator occurs too, a call that returns returns login_required.
C29_LoginCheckedBeforeChallenge ==
    [][ LET content == Lower(ContentText(page.content))
            url == Lower(UrlText(page.url))
            login == \E k \in 1..Len(login_indicators) :
                        \/ Contains(login_indicators[k], content)
                        \/ Contains(login_indicators[k], url)
            challenge == \E k \in 1..Len(captcha_indicators) :
                            \/ Contains(captcha_indicators[k], content)
                            \/ Contains(captcha_indicators[k], url)
        IN  ( /\ pc \in {"generic_check_blockers", "linkedin_check_blockers",
                         "indeed_check_blockers"}
              /\ pc' # "except"
              /\ login /\ challenge )
            => blocker' = "login_required"
      ]_vars

\* C29 witness: the generic driver stopped for login_required on a sign-in
\* URL whose content shows a captcha.
C29_Witness ==
    /\ pc = "generic_blocked"
    /\ page.url = "gen_signin"
    /\ page.content = "captcha"
    /\ blocker = "login_required"

\* C30: check_for_blockers matches case-insensitively the login indicators
\* against the URL and the content, and the challenge indicators against
\* the content only: a call that returns returns login_required when a
\* login indicator occurs in either, else captcha_blocked when a challenge
\* indicator occurs in the content, else None.
C30_ChallengeMatchedInContent ==
    [][ LET content == Lower(ContentText(page.content))
            url == Lower(UrlText(page.url))
            login == \E k \in 1..Len(login_indicators) :
                        \/ Contains(login_indicators[k], content)
                        \/ Contains(login_indicators[k], url)
            challenge == \E k \in 1..Len(captcha_indicators) :
                            Contains(captcha_indicators[k], content)
        IN  ( /\ pc \in {"generic_check_blockers", "linkedin_check_blockers",
                         "indeed_check_blockers"}
              /\ pc' # "except" )
            => /\ blocker' = "captcha_blocked" <=> (challenge /\ ~login)
               /\ blocker' = "none" <=> (~challenge /\ ~login)
               /\ blocker' = "login_required" <=> login
      ]_vars

\* C30 witness: on a URL that holds a challenge indicator, with a content
\* that holds none, check_for_blockers returned None and the generic driver
\* went on to the apply button.
C30_Witness ==
    /\ pc = "generic_click_apply"
    /\ page.url = "gen_challenge"
    /\ page.content = "plain"
    /\ blocker = "none"

\* C30 as stated: both lists are matched against both the URL and the
\* content: captcha_blocked whenever a challenge indicator occurs in the URL
\* or the content and no login indicator does, None only when no indicator
\* of either list occurs in the URL or the content.
C30_ChallengeMatchedInUrlToo ==
    [][ LET content == Lower(ContentText(page.content))
            url == Lower(UrlText(page.url))
            login == \E k \in 1..Len(login_indicators) :
                        \/ Contains(login_indicators[k], content)
                        \/ Contains(login_indicators[k], url)
            challenge == \E k \in 1..Len(captcha_indicators) :
                            \/ Contains(captcha_indicators[k], content)
                            \/ Contains(captcha_indicators[k], url)
        IN  ( /\ pc \in {"generic_check_blockers", "linkedin_check_blockers",
                         "indeed_check_blockers"}
              /\ pc' # "except" )
            => /\ (challenge /\ ~login) => blocker' = "captcha_blocked"
               /\ blocker' = "none" => (~challenge /\ ~login)
      ]_vars

\* C31 as stated: the session cookies a driver passes to new_context are
\* attached to the domain of that driver's platform: .linkedin.com for the
\* LinkedIn driver, .indeed.com for the Indeed driver.
C31_CookiesOnPlatformDomain ==
    (pc = "goto" /\ req.session_cookies) =>
        /\ driver = "linkedin" => act.cookie_domain = <<".", "linkedin", ".co", "m">>
        /\ driver = "indeed" => act.cookie_domain = <<".", "indeed", ".co", "m">>

\* C32: start is idempotent for calls made one after the other: however
\* many times the requests served one at a time call new_context (and so
\* start), at most one browser process has been launched, it is the one
\* _browser refers to, and every context was created from it.
C32_StartIsIdempotent ==
    launches.tasks = <<>> =>
        /\ launches.launched <= 1
        /\ launches.handle = launches.launched
        /\ (browser = "launched") <=> (launches.launched = 1)
        /\ Len(launches.created_from) = Cardinality(opened)
        /\ \A k \in 1..Len(launches.created_from) : launches.created_from[k] = 1

\* C32 witness: the second attempt of a batch has its context, created from
\* the browser the first attempt launched.
C32_Witness ==
    /\ handler = "batch_apply"
    /\ i = 1
    /\ pc = "goto"
    /\ launches.launched = 1
    /\ launches.created_from = <<1, 1>>

\* C34 as stated: also when two requests call new_context at once while no
\* browser is started, one browser process at most is launched, and every
\* launched browser is the one _browser refers to (stop() can close it).
C34_ConcurrentStartLaunchesOnce ==
    /\ launches.launched <= 1
    /\ \A b \in 1..launches.launched : b = launches.handle

\* C33 as stated: in every driver, an attempt during which a submit control
\* was clicked returns status success, whatever the steps after the click
\* do.
C33_SubmittedIsReportedSuccess ==
    (pc = "returned" /\ submit_clicked) => result.status = "success"

\* C35: in every driver a field is filled or a resume uploaded only in an
\* attempt whose check_for_blockers has run and returned no blocker.
C35_NoFillBeforeBlockerCheck ==
    (act.fills > 0 \/ act.upload) => blocker = "none"

\* C35 witness: the Indeed step loop filled a field, after a blocker check
\* that found nothing.
C35_Witness ==
    /\ driver = "indeed"
    /\ act.fills > 0
    /\ blocker = "none"

\* C36 as stated, for the attempts that end in success or draft: the
\* result's fields_filled is the number of fills and uploads that succeeded
\* during the attempt: the generic driver reports the count of its fills
\* and upload, and the result of the Indeed driver is non-zero when the
\* last step of its loop filled a field or uploaded the resume.
C36_FieldsFilledCountsFills ==
    (pc = "finally" /\ result.status \in {"success", "draft"}) =>
        /\ driver = "generic" => result.fields_filled = filled
        /\ (driver = "indeed" /\ filled > 0) => result.fields_filled # 0

C38_OwnDomainNotExternal ==
    [][ (pc = "indeed_check_external" /\ indeed_detect_platform(page.url))
        => pc' # "indeed_external" ]_vars

================================================================
